---- MODULE Spec2Model ----
(***************************************************************************)
(* FloProExcel: the MCP gateway client (createMcpTool), the edge server's  *)
(* request pipeline and the managed JSON-RPC endpoint, as state machines.  *)
(*                                                                         *)
(* Strings whose content the code inspects (server ids, names, tokens,     *)
(* error messages) are sequences of one-character strings, so that trim,   *)
(* toLowerCase and includes are computed and not assumed.                  *)
(***************************************************************************)
EXTENDS Integers, Sequences, FiniteSets, TLC

(***************************************************************************)
(* Text helpers (String.prototype.trim / toLowerCase / includes).          *)
(***************************************************************************)
UpperChars == <<"A","B","C","D","E","F","G","H","I","J","K","L","M",
                "N","O","P","Q","R","S","T","U","V","W","X","Y","Z">>
LowerChars == <<"a","b","c","d","e","f","g","h","i","j","k","l","m",
                "n","o","p","q","r","s","t","u","v","w","x","y","z">>

LowerChar(c) ==
  IF \E i \in DOMAIN UpperChars : UpperChars[i] = c
  THEN LowerChars[CHOOSE i \in DOMAIN UpperChars : UpperChars[i] = c]
  ELSE c

ToLowerCase(s) == [i \in 1..Len(s) |-> LowerChar(s[i])]

RECURSIVE TrimStart(_)
TrimStart(s) ==
  IF s # <<>> /\ Head(s) = " " THEN TrimStart(Tail(s)) ELSE s

RECURSIVE TrimEnd(_)
TrimEnd(s) ==
  IF s # <<>> /\ s[Len(s)] = " " THEN TrimEnd(SubSeq(s, 1, Len(s) - 1)) ELSE s

Trim(s) == TrimEnd(TrimStart(s))

Includes(hay, needle) ==
  \E i \in 0..(Len(hay) - Len(needle)) : SubSeq(hay, i + 1, i + Len(needle)) = needle

\* "tool not found"
PhraseToolNotFound ==
  <<"t","o","o","l"," ","n","o","t"," ","f","o","u","n","d">>

\* "method not found"
PhraseMethodNotFound ==
  <<"m","e","t","h","o","d"," ","n","o","t"," ","f","o","u","n","d">>

\* "unknown tool"
PhraseUnknownTool ==
  <<"u","n","k","n","o","w","n"," ","t","o","o","l">>

\* "stale"
PhraseStale ==
  <<"s","t","a","l","e">>

\* "no response"
PhraseNoResponse ==
  <<"n","o"," ","r","e","s","p","o","n","s","e">>

\* "not available"
PhraseNotAvailable ==
  <<"n","o","t"," ","a","v","a","i","l","a","b","l","e">>

\* "Tool not found: t1"
TextRpcToolNotFound ==
  <<"T","o","o","l"," ","n","o","t"," ","f","o","u","n","d",":"," ","t","1">>

\* "Unknown tool: t1"
TextRpcUnknownTool ==
  <<"U","n","k","n","o","w","n"," ","t","o","o","l",":"," ","t","1">>

\* "symbol must be a string."
TextRpcValidation ==
  <<"s","y","m","b","o","l"," ","m","u","s","t"," ","b","e"," ","a"," ","s",
    "t","r","i","n","g",".">>

\* "MCP request failed (503): Service Not Available"
TextHttpUnavailable ==
  <<"M","C","P"," ","r","e","q","u","e","s","t"," ","f","a","i","l","e","d",
    " ","(","5","0","3",")",":"," ","S","e","r","v","i","c","e"," ","N","o",
    "t"," ","A","v","a","i","l","a","b","l","e">>

\* "MCP request timed out after 15000ms."
TextTimeout ==
  <<"M","C","P"," ","r","e","q","u","e","s","t"," ","t","i","m","e","d"," ",
    "o","u","t"," ","a","f","t","e","r"," ","1","5","0","0","0","m","s",".">>

\* "Aborted": what runWithTimeoutAbort throws when the caller's signal aborts.
TextAborted == <<"A","b","o","r","t","e","d">>

\* "MCP tools/call returned no response."
TextCallNoResponse ==
  <<"M","C","P"," ","t","o","o","l","s","/","c","a","l","l"," ","r","e","t",
    "u","r","n","e","d"," ","n","o"," ","r","e","s","p","o","n","s","e",".">>

\* "MCP tools/list returned no response."
TextListNoResponse ==
  <<"M","C","P"," ","t","o","o","l","s","/","l","i","s","t"," ","r","e","t",
    "u","r","n","e","d"," ","n","o"," ","r","e","s","p","o","n","s","e",".">>

\* "MCP tool not found: t1."
TextToolNotFound ==
  <<"M","C","P"," ","t","o","o","l"," ","n","o","t"," ","f","o","u","n","d",
    ":"," ","t","1",".">>

\* "MCP tool t1 is available on multiple servers."
TextAmbiguous ==
  <<"M","C","P"," ","t","o","o","l"," ","t","1"," ","i","s"," ","a","v","a",
    "i","l","a","b","l","e"," ","o","n"," ","m","u","l","t","i","p","l","e",
    " ","s","e","r","v","e","r","s",".">>

\* "Unknown MCP server: x"
TextUnknownServer ==
  <<"U","n","k","n","o","w","n"," ","M","C","P"," ","s","e","r","v","e","r",
    ":"," ","x">>

\* "MCP server is disabled."
TextDisabled ==
  <<"M","C","P"," ","s","e","r","v","e","r"," ","i","s"," ","d","i","s","a",
    "b","l","e","d",".">>

\* "mcp.args must be valid JSON."
TextArgsInvalid ==
  <<"m","c","p",".","a","r","g","s"," ","m","u","s","t"," ","b","e"," ","v",
    "a","l","i","d"," ","J","S","O","N",".">>

(***************************************************************************)
(* Error messages of the gateway client.  RpcErrors are the failures the   *)
(* injected callJsonRpc can throw (a JSON-RPC error of the server, an HTTP *)
(* failure, the timeout); the M_ messages are thrown by execute itself.    *)
(* The interpolated tool name, token and server names are fixed to t1 / x. *)
(***************************************************************************)
RpcErrors ==
  {"E_ToolNotFound", "E_UnknownTool", "E_Validation", "E_HttpUnavailable", "E_Timeout",
   "E_Aborted"}

MessageText(m) ==
  CASE m = "E_ToolNotFound"    -> TextRpcToolNotFound
    [] m = "E_UnknownTool"     -> TextRpcUnknownTool
    [] m = "E_Validation"      -> TextRpcValidation
    [] m = "E_HttpUnavailable" -> TextHttpUnavailable
    [] m = "E_Timeout"         -> TextTimeout
    [] m = "E_Aborted"         -> TextAborted
    [] m = "M_CallNoResponse"  -> TextCallNoResponse
    [] m = "M_ListNoResponse"  -> TextListNoResponse
    [] m = "M_ToolNotFound"    -> TextToolNotFound
    [] m = "M_Ambiguous"       -> TextAmbiguous
    [] m = "M_UnknownServer"   -> TextUnknownServer
    [] m = "M_Disabled"        -> TextDisabled
    [] m = "M_ArgsInvalid"     -> TextArgsInvalid
    [] OTHER                   -> <<>>

\* getRpcErrorCode: the code of a McpRpcError, undefined for any other Error.
getRpcErrorCode(m) ==
  CASE m = "E_ToolNotFound" -> "-32602"
    [] m = "E_UnknownTool"  -> "-32000"
    [] m = "E_Validation"   -> "-32000"
    [] OTHER                -> "undefined"

\* A predicate that also takes a timeout ("timed out") for a stale catalog.
isRecoverableToolCallError_TimedOut(m) ==
  LET message == ToLowerCase(MessageText(m))
  IN  \/ Includes(message, PhraseToolNotFound)
      \/ Includes(message, PhraseMethodNotFound)
      \/ Includes(message, PhraseUnknownTool)
      \/ Includes(message, PhraseStale)
      \/ Includes(message, PhraseNoResponse)
      \/ Includes(message, PhraseNotAvailable)
      \/ Includes(message, <<"t","i","m","e","d"," ","o","u","t">>)

\* A predicate that also takes the caller's abort for a stale catalog.
isRecoverableToolCallError_Aborted(m) ==
  LET message == ToLowerCase(MessageText(m))
  IN  \/ Includes(message, PhraseToolNotFound)
      \/ Includes(message, PhraseMethodNotFound)
      \/ Includes(message, PhraseUnknownTool)
      \/ Includes(message, PhraseStale)
      \/ Includes(message, PhraseNoResponse)
      \/ Includes(message, PhraseNotAvailable)
      \/ Includes(message, <<"a","b","o","r","t","e","d">>)

isRecoverableToolCallError(m) ==
  LET message == ToLowerCase(MessageText(m))
  IN  \/ Includes(message, PhraseToolNotFound)
      \/ Includes(message, PhraseMethodNotFound)
      \/ Includes(message, PhraseUnknownTool)
      \/ Includes(message, PhraseStale)
      \/ Includes(message, PhraseNoResponse)
      \/ Includes(message, PhraseNotAvailable)

(***************************************************************************)
(* Server configurations (McpRuntimeConfig.servers).  Two servers with     *)
(* distinct ids; the first one's display name is either its own or, in the *)
(* aliased configuration, the second one's id in another letter case.      *)
(***************************************************************************)
IdA == <<"s","a">>
IdB == <<"s","b">>
NameA == <<"A","l">>
NameAliasB == <<"S","B">>
NameB == <<"B","e">>

ServerConfigs ==
  { << [id |-> IdA, name |-> n, enabled |-> TRUE],
       [id |-> IdB, name |-> NameB, enabled |-> TRUE] >> : n \in {NameA, NameAliasB} }

ServerIds == {IdA, IdB}

\* What loadEffectiveMcpServers returns when a stored custom server carries the
\* id of a managed one: the managed server and the custom one share the id.
SharedIdConfig ==
  << [id |-> IdA, name |-> NameA, enabled |-> TRUE],
     [id |-> IdA, name |-> NameB, enabled |-> TRUE] >>

\* Raw `server` / `connect` parameters; <<>> is an absent (or empty) parameter.
RawTokens == { <<"S","A">>, <<"s","b"," ">>, <<"B","e">>, <<"B">> }

ToolNames == {"t1", "t2"}

\* The tool names a server's tools/list response carries.
ToolLists == { <<>>, <<"t1">>, <<"t1","t2">> }

\* Raw `search` parameters; <<>> is an absent (or empty) parameter.
RawQueries == { <<" ","t"," ">> }

NoParams ==
  [connect |-> <<>>, tool |-> "", describe |-> "", search |-> <<>>, server |-> <<>>,
   argsOk |-> TRUE]

RawParams ==
       { NoParams }
  \cup { [NoParams EXCEPT !.connect = t] : t \in RawTokens }
  \cup { [NoParams EXCEPT !.server = t] : t \in RawTokens }
  \cup { [NoParams EXCEPT !.tool = n, !.server = t, !.argsOk = a] :
           n \in ToolNames, t \in RawTokens \cup {<<>>}, a \in BOOLEAN }
  \cup { [NoParams EXCEPT !.describe = n, !.server = t] :
           n \in {"t1"}, t \in {<<>>, <<"B","e">>} }
  \cup { [NoParams EXCEPT !.search = q] : q \in RawQueries }

VARIABLES
  servers,    \* the runtime configuration getRuntimeConfig returns
  toolCache,  \* createMcpTool's toolCache, by server id
  op          \* the execute call in progress: its locals and its position

VARIABLES
  CONFIGURED_ALLOWED_ORIGINS,  \* the set parsed from ALLOWED_ORIGINS
  RATE_LIMIT_MAX_REQUESTS,     \* the configured maximum per window
  RATE_LIMIT_STATE,            \* the Map from client ip to {startedAt, count}
  now,                         \* Date.now()
  limiterCalls,                \* history: the calls of isRateLimited, in order
  last                         \* the last request the server callback handled

VARIABLES
  px,         \* the handleOpenRouterProxy call in progress
  rpc         \* the handleManagedMcpRpc call in progress

gwVars == <<servers, toolCache, op>>

edgeVars == <<CONFIGURED_ALLOWED_ORIGINS, RATE_LIMIT_MAX_REQUESTS, RATE_LIMIT_STATE,
              now, limiterCalls, last>>

VARIABLES
  settings,   \* the McpConfigStore: the value stored under each of the two keys
  reg,        \* the registry call in progress and what the last call returned
  jm,         \* the jamaica_market execute call in progress
  budget,     \* the NoActionRetryBudget and the history of its calls
  transport,  \* the defaultCallJsonRpc call of the gateway client in progress
  catalog     \* two concurrent ensureServerTools calls and the cache they share

proxyVars == <<px>>

managedVars == <<rpc>>

registryVars == <<settings, reg>>

jamaicaVars == <<jm>>

budgetVars == <<budget>>

callVars == <<transport>>

catalogVars == <<catalog>>

clientVars == <<registryVars, jamaicaVars, budgetVars, callVars, catalogVars>>

vars == <<gwVars, edgeVars, proxyVars, managedVars, clientVars>>

NoEntry == [cached |-> FALSE, tools |-> <<>>]

NoRpc == [method |-> "none", sid |-> 0]

IdleOp ==
  [ pc |-> "idle", raw |-> NoParams,
    params |-> [connect |-> <<>>, tool |-> "", describe |-> "", search |-> <<>>,
                server |-> <<>>, argsOk |-> TRUE],
    phase |-> "none", refresh |-> FALSE, todo |-> <<>>, lists |-> <<>>,
    cur |-> NoRpc, log |-> <<>>, listed |-> <<>>,
    target |-> 0,
    targetTool |-> [serverId |-> <<>>, serverName |-> <<>>, name |-> "",
                    description |-> <<>>],
    retryApplied |-> FALSE, rpcMethod |-> "undefined", rpcErrorCode |-> "undefined",
    firstError |-> "none",
    result |-> [ok |-> TRUE, operation |-> "none", error |-> "none",
                candidates |-> {}, retryApplied |-> FALSE,
                rpcMethod |-> "undefined", errorCode |-> "undefined",
                status |-> <<>>, matches |-> <<>>, more |-> 0] ]

\* normalizeOptionalString, on a string parameter.
normalizeOptionalString(value) == Trim(value)

parseParams(raw) ==
  [ connect |-> normalizeOptionalString(raw.connect),
    tool |-> raw.tool,
    describe |-> raw.describe,
    search |-> normalizeOptionalString(raw.search),
    server |-> normalizeOptionalString(raw.server),
    argsOk |-> raw.argsOk ]

normalizeServerToken(value) == ToLowerCase(Trim(value))

Min(S) == CHOOSE x \in S : \A y \in S : x <= y

\* A lookup that also takes a token that an id or a name starts with.
findServerByToken_Prefix(list, token) ==
  LET normalized == normalizeServerToken(token)
      starts(text) == /\ Len(normalized) <= Len(text)
                      /\ SubSeq(text, 1, Len(normalized)) = normalized
      hits == { i \in DOMAIN list :
                  \/ starts(normalizeServerToken(list[i].id))
                  \/ starts(normalizeServerToken(list[i].name)) }
  IN  IF hits = {} THEN 0 ELSE Min(hits)

\* The index of the first server the token matches by id or by name; 0 for null.
findServerByToken(list, token) ==
  LET normalized == normalizeServerToken(token)
      hits == { i \in DOMAIN list :
                  \/ normalizeServerToken(list[i].id) = normalized
                  \/ normalizeServerToken(list[i].name) = normalized }
  IN  IF hits = {} THEN 0 ELSE Min(hits)

resolveSingleServer(token) ==
  LET i == findServerByToken(servers, token)
  IN  IF i = 0 THEN [ok |-> FALSE, idx |-> 0, err |-> "M_UnknownServer"]
      ELSE IF ~servers[i].enabled THEN [ok |-> FALSE, idx |-> i, err |-> "M_Disabled"]
      ELSE [ok |-> TRUE, idx |-> i, err |-> "none"]

\* What a tools/list response carries for a tool beside its name: the name's
\* characters, and the description (<<>>: none).  b01..b16 are the tools of a
\* large catalog.
ToolNameTexts ==
  [ t1 |-> <<"t","1">>, t2 |-> <<"t","2">>, b01 |-> <<"b","0","1">>,
    b02 |-> <<"b","0","2">>, b03 |-> <<"b","0","3">>,
    b04 |-> <<"b","0","4">>, b05 |-> <<"b","0","5">>,
    b06 |-> <<"b","0","6">>, b07 |-> <<"b","0","7">>,
    b08 |-> <<"b","0","8">>, b09 |-> <<"b","0","9">>,
    b10 |-> <<"b","1","0">>, b11 |-> <<"b","1","1">>,
    b12 |-> <<"b","1","2">>, b13 |-> <<"b","1","3">>,
    b14 |-> <<"b","1","4">>, b15 |-> <<"b","1","5">>,
    b16 |-> <<"b","1","6">> ]

ToolDescriptions ==
  [ t1 |-> <<"G","e","t"," ","Q","u","o","t","e">>, t2 |-> <<>>,
    b01 |-> <<"b","u","l","k">>, b02 |-> <<"b","u","l","k">>,
    b03 |-> <<"b","u","l","k">>, b04 |-> <<"b","u","l","k">>,
    b05 |-> <<"b","u","l","k">>, b06 |-> <<"b","u","l","k">>,
    b07 |-> <<"b","u","l","k">>, b08 |-> <<"b","u","l","k">>,
    b09 |-> <<"b","u","l","k">>, b10 |-> <<"b","u","l","k">>,
    b11 |-> <<"b","u","l","k">>, b12 |-> <<"b","u","l","k">>,
    b13 |-> <<"b","u","l","k">>, b14 |-> <<"b","u","l","k">>,
    b15 |-> <<"b","u","l","k">>, b16 |-> <<"b","u","l","k">> ]

BulkToolList ==
  <<"b01", "b02", "b03", "b04", "b05", "b06", "b07", "b08",
    "b09", "b10", "b11", "b12", "b13", "b14", "b15", "b16">>

parseToolListResult(server, names) ==
  [ i \in 1..Len(names) |->
      [serverId |-> server.id, serverName |-> server.name, name |-> names[i],
       description |-> ToolDescriptions[names[i]]] ]

\* The operation label of the outer catch (and of each success result).
Operation(p) ==
  IF p.tool # "" THEN "tool"
  ELSE IF p.connect # <<>> THEN "connect"
  ELSE IF p.describe # "" THEN "describe"
  ELSE IF p.search # <<>> THEN "search"
  ELSE IF p.server # <<>> THEN "server"
  ELSE "status"

(***************************************************************************)
(* execute, cut at its awaits.  Each operator below is the synchronous     *)
(* code between two awaits: it ends by issuing the next callJsonRpc        *)
(* (Issue), by returning a result (Succeed) or in the outer catch (Catch). *)
(***************************************************************************)
Issue(o, method, sid) ==
  [o EXCEPT !.pc = "await",
            !.cur = [method |-> method, sid |-> sid],
            !.log = Append(@, [method |-> method, sid |-> sid])]

Succeed(o) ==
  [o EXCEPT !.pc = "done", !.cur = NoRpc,
            !.result = [ok |-> TRUE, operation |-> Operation(o.params),
                        error |-> "none", candidates |-> {},
                        retryApplied |-> o.retryApplied,
                        rpcMethod |-> o.rpcMethod,
                        errorCode |-> o.rpcErrorCode,
                        status |-> <<>>, matches |-> <<>>, more |-> 0]]

\* The outer catch of execute.
Catch(o, err, names) ==
  [o EXCEPT !.pc = "done", !.cur = NoRpc,
            !.result = [ok |-> FALSE, operation |-> Operation(o.params),
                        error |-> err, candidates |-> names,
                        retryApplied |-> o.retryApplied,
                        rpcMethod |-> o.rpcMethod,
                        errorCode |-> IF o.rpcErrorCode = "undefined"
                                      THEN getRpcErrorCode(err)
                                      ELSE o.rpcErrorCode,
                        status |-> <<>>, matches |-> <<>>, more |-> 0]]

RECURSIVE Flatten(_)
Flatten(ls) == IF ls = <<>> THEN <<>> ELSE Head(ls).tools \o Flatten(Tail(ls))

\* A resolution that forgets to filter by the requested name.
Matched_NoFilter(allTools, tool) == allTools

Matched(allTools, tool) == SelectSeq(allTools, LAMBDA t : t.name = tool)

callTool(o) == Issue(o, "tools/call", o.target)

\* Tool resolution, once the candidate lists are there, up to the first tools/call.
ResolveTool(o) ==
  LET allTools == Flatten(o.lists)
      matched == Matched(allTools, o.params.tool)
      matchedServerIds == { matched[i].serverId : i \in DOMAIN matched }
      serverNames == { matched[i].serverName : i \in DOMAIN matched }
  IN  IF matched = <<>> THEN Catch(o, "M_ToolNotFound", {})
      ELSE IF o.params.server = <<>> /\ Cardinality(matchedServerIds) > 1
        THEN Catch(o, "M_Ambiguous", serverNames)
      ELSE
        LET targetTool == matched[1]
            r == resolveSingleServer(targetTool.serverId)
        IN  IF ~r.ok THEN Catch(o, r.err, {})
            ELSE IF ~o.params.argsOk THEN Catch(o, "M_ArgsInvalid", {})
            ELSE callTool([o EXCEPT !.target = r.idx,
                                    !.targetTool = targetTool,
                                    !.rpcMethod = "tools/call",
                                    !.phase = "call1"])

matchesServerToken(tool, token) ==
  LET normalized == normalizeServerToken(token)
  IN  \/ normalizeServerToken(tool.serverId) = normalized
      \/ normalizeServerToken(tool.serverName) = normalized

\* describe, once the lists are there: the first candidate of that name.
Describe(o) ==
  LET allTools == Flatten(o.lists)
      candidates == IF o.params.server # <<>>
                    THEN SelectSeq(allTools, LAMBDA t : matchesServerToken(t, o.params.server))
                    ELSE allTools
      found == SelectSeq(candidates, LAMBDA t : t.name = o.params.describe)
  IN  IF found = <<>> THEN Catch(o, "M_ToolNotFound", {})
      ELSE Succeed([o EXCEPT !.targetTool = found[1]])

\* split(/\s+/) and the filter of empty tokens: current is the token being read.
RECURSIVE SplitTokens(_, _)
SplitTokens(text, current) ==
  IF text = <<>> THEN (IF current = <<>> THEN <<>> ELSE <<current>>)
  ELSE IF Head(text) = " "
  THEN (IF current = <<>> THEN <<>> ELSE <<current>>) \o SplitTokens(Tail(text), <<>>)
  ELSE SplitTokens(Tail(text), Append(current, Head(text)))

toSearchTokens(query) == SplitTokens(ToLowerCase(query), <<>>)

\* A match that needs every token of the query.
matchesSearch_EveryToken(tool, query) ==
  LET haystack == ToLowerCase(ToolNameTexts[tool.name] \o <<" ">> \o tool.description)
      tokens == toSearchTokens(query)
  IN  \A i \in DOMAIN tokens : Includes(haystack, tokens[i])

matchesSearch(tool, query) ==
  LET haystack == ToLowerCase(ToolNameTexts[tool.name] \o <<" ">> \o tool.description)
      tokens == toSearchTokens(query)
  IN  IF tokens = <<>> THEN TRUE
      ELSE \E i \in DOMAIN tokens : Includes(haystack, tokens[i])

\* search, once the lists are there: the result text has a line for each of
\* the first 30 matches and counts the others.
Search(o) ==
  LET allTools == Flatten(o.lists)
      matches == SelectSeq(allTools, LAMBDA tool : matchesSearch(tool, o.params.search))
      limit == IF Len(matches) < 30 THEN Len(matches) ELSE 30
  IN  [Succeed(o) EXCEPT !.result.matches = SubSeq(matches, 1, limit),
                         !.result.more = Len(matches) - limit]

\* What follows the last ensureServerTools of a phase.
AfterLists(o) ==
  CASE o.phase = "resolve"  -> ResolveTool(o)
    [] o.phase = "refresh"  -> callTool([o EXCEPT !.phase = "call2"])
    [] o.phase = "describe" -> Describe(o)
    [] o.phase = "search"   -> Search(o)
    [] OTHER                -> Succeed(o)

\* An ensureServerTools for which every cache entry has expired.
ensureServerTools_Expired(o, cache) ==
  IF o.todo = <<>> THEN AfterLists(o) ELSE Issue(o, "initialize", Head(o.todo))

\* An ensureServerTools that takes a cache hit even when asked to refresh.
RECURSIVE ensureServerTools_IgnoreRefresh(_, _)
ensureServerTools_IgnoreRefresh(o, cache) ==
  IF o.todo = <<>> THEN AfterLists(o)
  ELSE
    LET sid == Head(o.todo)
        cached == cache[servers[sid].id]
    IN  IF cached.cached
        THEN ensureServerTools_IgnoreRefresh(
               [o EXCEPT !.todo = Tail(@), !.lists = Append(@, cached)], cache)
        ELSE Issue(o, "initialize", sid)

\* ensureServerTools for each server still to do: a cache hit is taken without
\* an await, a miss (or refresh) issues initialize.
RECURSIVE ensureServerTools(_, _)
ensureServerTools(o, cache) ==
  IF o.todo = <<>> THEN AfterLists(o)
  ELSE
    LET sid == Head(o.todo)
        cached == cache[servers[sid].id]
    IN  IF ~o.refresh /\ cached.cached
        THEN ensureServerTools([o EXCEPT !.todo = Tail(@), !.lists = Append(@, cached)], cache)
        ELSE Issue(o, "initialize", sid)

\* A status line that counts the tools of a server without a cache entry too.
buildServerStatusLine_CountAlways(server, cached) ==
  IF ~server.enabled THEN [name |-> server.name, state |-> "disabled", count |-> -1]
  ELSE [name |-> server.name, state |-> "enabled", count |-> Len(cached.tools)]

\* The line of one server: its tool count is there when the server is enabled
\* and has a cache entry (count -1: the line shows none).
buildServerStatusLine(server, cached) ==
  IF ~server.enabled THEN [name |-> server.name, state |-> "disabled", count |-> -1]
  ELSE IF ~cached.cached THEN [name |-> server.name, state |-> "enabled", count |-> -1]
  ELSE [name |-> server.name, state |-> "enabled", count |-> Len(cached.tools)]

enabledServers == SelectSeq([i \in DOMAIN servers |-> i], LAMBDA i : servers[i].enabled)

\* execute from its entry to its first await.
Start(q) ==
  LET o == [IdleOp EXCEPT !.params = q]
  IN  IF Len(servers) = 0 THEN Catch(o, "M_NoServers", {})
      ELSE IF q.connect # <<>> THEN
        LET r == resolveSingleServer(q.connect)
        IN  IF ~r.ok THEN Catch(o, r.err, {})
            ELSE ensureServerTools(
                   [o EXCEPT !.phase = "connect", !.refresh = TRUE, !.todo = <<r.idx>>],
                   toolCache)
      ELSE IF q.tool # "" THEN
        IF q.server # <<>> THEN
          LET r == resolveSingleServer(q.server)
          IN  IF ~r.ok THEN Catch(o, r.err, {})
              ELSE ensureServerTools(
                     [o EXCEPT !.phase = "resolve", !.todo = <<r.idx>>], toolCache)
        ELSE ensureServerTools(
               [o EXCEPT !.phase = "resolve", !.todo = enabledServers], toolCache)
      ELSE IF q.describe # "" THEN
        ensureServerTools([o EXCEPT !.phase = "describe", !.todo = enabledServers], toolCache)
      ELSE IF q.search # <<>> THEN
        ensureServerTools([o EXCEPT !.phase = "search", !.todo = enabledServers], toolCache)
      ELSE IF q.server # <<>> THEN
        LET r == resolveSingleServer(q.server)
        IN  IF ~r.ok THEN Catch(o, r.err, {})
            ELSE ensureServerTools(
                   [o EXCEPT !.phase = "server", !.todo = <<r.idx>>], toolCache)
      ELSE [Succeed(o) EXCEPT
              !.result.status =
                 [i \in DOMAIN servers |->
                    buildServerStatusLine(servers[i], toolCache[servers[i].id])]]

\* The catch of the inner try around the first callTool.
CatchFirstCall(o, err) ==
  LET o1 == [o EXCEPT !.rpcErrorCode = getRpcErrorCode(err), !.firstError = err]
  IN  IF ~isRecoverableToolCallError(err) THEN Catch(o1, err, {})
      ELSE ensureServerTools(
             [o1 EXCEPT !.retryApplied = TRUE, !.phase = "refresh",
                        !.refresh = TRUE, !.todo = <<o.target>>],
             toolCache)

\* A retried call that, on a recoverable failure, refreshes and retries again.
CatchRetriedCall_RetryAgain(o, err) ==
  IF isRecoverableToolCallError(err)
  THEN ensureServerTools(
         [o EXCEPT !.phase = "refresh", !.refresh = TRUE, !.todo = <<o.target>>],
         toolCache)
  ELSE Catch(o, err, {})

\* The retried callTool sits in the catch block itself: its failure leaves the
\* inner try and reaches the outer catch.
CatchRetriedCall(o, err) == Catch(o, err, {})

(***************************************************************************)
(* Actions of the gateway client.                                          *)
(***************************************************************************)
Execute(raw) ==
  /\ op.pc = "idle"
  /\ op' = [Start(parseParams(raw)) EXCEPT !.raw = raw]
  /\ UNCHANGED <<servers, toolCache>>
  /\ UNCHANGED <<edgeVars, proxyVars, managedVars, clientVars>>

InitializeReturns ==
  /\ op.pc = "await" /\ op.cur.method = "initialize"
  /\ op' = Issue(op, "notifications/initialized", op.cur.sid)
  /\ UNCHANGED <<servers, toolCache>>
  /\ UNCHANGED <<edgeVars, proxyVars, managedVars, clientVars>>

InitializedReturns ==
  /\ op.pc = "await" /\ op.cur.method = "notifications/initialized"
  /\ op' = Issue(op, "tools/list", op.cur.sid)
  /\ UNCHANGED <<servers, toolCache>>
  /\ UNCHANGED <<edgeVars, proxyVars, managedVars, clientVars>>

ToolsListReturns(names) ==
  /\ op.pc = "await" /\ op.cur.method = "tools/list"
  /\ LET server == servers[op.cur.sid]
         entry == [cached |-> TRUE, tools |-> parseToolListResult(server, names)]
     IN  /\ toolCache' = [toolCache EXCEPT ![server.id] = entry]
         /\ op' = ensureServerTools(
                    [op EXCEPT !.todo = Tail(@), !.listed = names,
                               !.lists = IF op.phase \in {"resolve", "describe", "search"}
                                         THEN Append(@, entry) ELSE @],
                    toolCache')
  /\ UNCHANGED servers
  /\ UNCHANGED <<edgeVars, proxyVars, managedVars, clientVars>>

\* callJsonRpc resolves to null for tools/list: "MCP tools/list returned no response."
ToolsListReturnsNull ==
  /\ op.pc = "await" /\ op.cur.method = "tools/list"
  /\ op' = Catch(op, "M_ListNoResponse", {})
  /\ UNCHANGED <<servers, toolCache>>
  /\ UNCHANGED <<edgeVars, proxyVars, managedVars, clientVars>>

\* A failing handshake call that evicts the entry of the server it was sent to.
HandshakeFails_Evict(err) ==
  /\ op.pc = "await"
  /\ op.cur.method \in {"initialize", "notifications/initialized", "tools/list"}
  /\ op' = Catch(op, err, {})
  /\ toolCache' = [toolCache EXCEPT ![servers[op.cur.sid].id] = NoEntry]
  /\ UNCHANGED servers
  /\ UNCHANGED <<edgeVars, proxyVars, managedVars, clientVars>>

\* A handshake call throws: nothing in execute catches it before the outer catch.
HandshakeFails(err) ==
  /\ op.pc = "await"
  /\ op.cur.method \in {"initialize", "notifications/initialized", "tools/list"}
  /\ op' = Catch(op, err, {})
  /\ UNCHANGED <<servers, toolCache>>
  /\ UNCHANGED <<edgeVars, proxyVars, managedVars, clientVars>>

ToolsCallReturns ==
  /\ op.pc = "await" /\ op.cur.method = "tools/call"
  /\ op' = Succeed(op)
  /\ UNCHANGED <<servers, toolCache>>
  /\ UNCHANGED <<edgeVars, proxyVars, managedVars, clientVars>>

\* tools/call throws, or resolves to null ("MCP tools/call returned no response.").
ToolsCallFails(err) ==
  /\ op.pc = "await" /\ op.cur.method = "tools/call"
  /\ op' = IF op.phase = "call1" THEN CatchFirstCall(op, err) ELSE CatchRetriedCall(op, err)
  /\ UNCHANGED <<servers, toolCache>>
  /\ UNCHANGED <<edgeVars, proxyVars, managedVars, clientVars>>

\* The caller takes the result; the tool is ready for the next execute.
Return ==
  /\ op.pc = "done"
  /\ op' = IdleOp
  /\ UNCHANGED <<servers, toolCache>>
  /\ UNCHANGED <<edgeVars, proxyVars, managedVars, clientVars>>

\* The user enables or disables a server between two operations.
SetServerEnabled(i) ==
  /\ op.pc = "idle"
  /\ servers' = [servers EXCEPT ![i].enabled = ~@]
  /\ UNCHANGED <<toolCache, op>>
  /\ UNCHANGED <<edgeVars, proxyVars, managedVars, clientVars>>

GatewayInit ==
  /\ servers \in ServerConfigs
  /\ toolCache = [id \in ServerIds |-> NoEntry]
  /\ op = IdleOp

\* The searches: queries of one and two tokens in mixed case, a blank one.
SearchQueries ==
  { <<" ","t"," ">>, <<"Q","U","O","T","E">>, <<"z","z"," "," ","2">>,
    <<"b","u","l","k">>, <<" ">> }

SearchParams == { [NoParams EXCEPT !.search = q] : q \in SearchQueries }

SearchToolLists == ToolLists \cup {BulkToolList}

SearchNext ==
  \/ \E raw \in SearchParams : Execute(raw)
  \/ InitializeReturns
  \/ InitializedReturns
  \/ \E names \in SearchToolLists : ToolsListReturns(names)
  \/ Return
  \/ \E i \in DOMAIN servers : SetServerEnabled(i)

GatewayNext ==
  \/ \E raw \in RawParams : Execute(raw)
  \/ InitializeReturns
  \/ InitializedReturns
  \/ \E names \in ToolLists : ToolsListReturns(names)
  \/ ToolsListReturnsNull
  \/ \E err \in RpcErrors : HandshakeFails(err)
  \/ ToolsCallReturns
  \/ \E err \in RpcErrors \cup {"M_CallNoResponse"} : ToolsCallFails(err)
  \/ Return
  \/ \E i \in DOMAIN servers : SetServerEnabled(i)



(***************************************************************************)
(* Properties of the gateway client (checked under SpecGateway).           *)
(***************************************************************************)
IsCall(e) == e.method = "tools/call"

Calls(log) == Len(SelectSeq(log, IsCall))

\* The position of the first tools/call in the log (0: none yet).
FirstCallAt(log) ==
  IF Calls(log) = 0 THEN 0 ELSE Min({ i \in DOMAIN log : IsCall(log[i]) })

\* What the operation issued after its first tools/call.
AfterFirstCall(log) == SubSeq(log, FirstCallAt(log) + 1, Len(log))

\* One forced refresh of server sid followed by one tools/call to it.
RefreshThenCall(sid) ==
  << [method |-> "initialize", sid |-> sid],
     [method |-> "notifications/initialized", sid |-> sid],
     [method |-> "tools/list", sid |-> sid],
     [method |-> "tools/call", sid |-> sid] >>

IsPrefix(s, t) == Len(s) <= Len(t) /\ SubSeq(t, 1, Len(s)) = s

\* The message carries one of the six recoverable phrases, in any letter case
\* (stated apart from isRecoverableToolCallError, which the claims are about).
HasRecoverablePhrase(m) ==
  \E phrase \in { PhraseToolNotFound, PhraseMethodNotFound, PhraseUnknownTool,
                  PhraseStale, PhraseNoResponse, PhraseNotAvailable } :
    Includes(ToLowerCase(MessageText(m)), phrase)

FirstCallFailed == op.firstError # "none"

\* C1 as stated: once the first tools/call has failed with a recoverable error, the
\* finished operation has issued exactly one forced refresh of the target server
\* followed by exactly one further tools/call, and nothing else.
C1_ExactlyOneRetriedCall ==
  (op.pc = "done" /\ FirstCallFailed /\ HasRecoverablePhrase(op.firstError))
    => AfterFirstCall(op.log) = RefreshThenCall(op.target)

\* C1 (amended): after a recoverable failure of the first tools/call the operation
\* starts exactly one forced refresh of the target server; a refresh that succeeds
\* is followed by exactly one further tools/call, a refresh that fails ends the
\* operation with the refresh's error and no further tools/call; a failure of the
\* second call is returned; never a third tools/call nor a second refresh.
C1_BoundedRetry ==
  (FirstCallFailed /\ HasRecoverablePhrase(op.firstError)) =>
    LET after == AfterFirstCall(op.log)
    IN  /\ after # <<>>
        /\ IsPrefix(after, RefreshThenCall(op.target))
        /\ Calls(op.log) <= 2
        /\ op.retryApplied
        /\ (op.pc = "await" => op.cur = after[Len(after)])
        /\ (op.pc = "done" /\ Len(after) < 4) =>
              /\ ~op.result.ok
              /\ op.result.error \in RpcErrors \cup {"M_ListNoResponse"}
        /\ (op.pc = "done" /\ op.result.ok) => after = RefreshThenCall(op.target)
        /\ (op.pc = "done" /\ Len(after) = 4 /\ ~op.result.ok) =>
              op.result.error \in RpcErrors \cup {"M_CallNoResponse"}

\* C1 witness: the retried call failed again with the very error of the first call.
C1_Witness ==
  /\ op.pc = "done" /\ ~op.result.ok
  /\ FirstCallFailed /\ HasRecoverablePhrase(op.firstError)
  /\ AfterFirstCall(op.log) = RefreshThenCall(op.target)
  /\ op.result.error = op.firstError

\* C2: a first tools/call that fails with a message carrying none of the recoverable
\* phrases ends the operation with that very error (and its code): the tools/call is
\* the last call issued, so there is neither a refresh nor a second tools/call.
C2_NonRecoverablePropagates ==
  (FirstCallFailed /\ ~HasRecoverablePhrase(op.firstError)) =>
    /\ op.pc = "done"
    /\ ~op.result.ok
    /\ op.result.error = op.firstError
    /\ op.result.errorCode = getRpcErrorCode(op.firstError)
    /\ ~op.result.retryApplied
    /\ Calls(op.log) = 1
    /\ AfterFirstCall(op.log) = <<>>

\* C2 witness: the first call timed out, with the target's catalog fetched before it.
C2_Witness ==
  /\ op.pc = "done" /\ op.firstError = "E_Timeout"
  /\ Len(op.log) = 4

\* The servers a tool operation without server token consults and that list the tool.
HasTool(entry, tool) == \E j \in DOMAIN entry.tools : entry.tools[j].name = tool

CandidateServers(tool) ==
  { i \in DOMAIN servers : servers[i].enabled /\ HasTool(toolCache[servers[i].id], tool) }

IsToolOp == op.pc # "idle" /\ op.params.tool # ""

\* C3 as stated: (a) a finished tool operation without server token whose tool is in
\* the catalogs of two or more enabled servers failed with the ambiguity error naming
\* all of them, and sent no tools/call; (b) with a server token whose server lists the
\* tool (and well-formed args), the operation is past resolution with no ambiguity
\* error and every tools/call it sent went to the server the token resolves to.
C3_AmbiguityAndTokenResolution ==
  /\ (IsToolOp /\ op.pc = "done" /\ op.params.server = <<>>
        /\ Cardinality(CandidateServers(op.params.tool)) >= 2) =>
       /\ ~op.result.ok /\ op.result.error = "M_Ambiguous"
       /\ op.result.candidates = { servers[i].name : i \in CandidateServers(op.params.tool) }
       /\ Calls(op.log) = 0
  /\ (IsToolOp /\ op.params.server # <<>> /\ op.params.argsOk
        /\ Cardinality(CandidateServers(op.params.tool)) >= 2
        /\ Len(op.lists) = 1 /\ HasTool(op.lists[1], op.params.tool)) =>
       /\ op.result.error # "M_Ambiguous"
       /\ Calls(op.log) >= 1
       /\ \A k \in DOMAIN op.log :
            IsCall(op.log[k]) => op.log[k].sid = findServerByToken(servers, op.params.server)

\* The number of catalogs a tool operation consults before it resolves the tool.
Consulted ==
  IF op.params.server # <<>> THEN 1 ELSE Len(enabledServers)

\* C4: a tool operation whose tool is in none of the catalogs it consulted is finished
\* with the "MCP tool not found" error, has sent no tools/call and has not entered the
\* refresh/retry path, although that message carries a recoverable phrase.
C4_NotFoundWithoutCall ==
  (IsToolOp /\ Len(op.lists) = Consulted
     /\ \A i \in DOMAIN op.lists : ~HasTool(op.lists[i], op.params.tool)) =>
    /\ op.pc = "done"
    /\ ~op.result.ok
    /\ op.result.error = "M_ToolNotFound"
    /\ HasRecoverablePhrase(op.result.error)
    /\ Calls(op.log) = 0
    /\ ~op.retryApplied /\ ~op.result.retryApplied
    /\ ~FirstCallFailed
    /\ op.result.rpcMethod = "undefined"
    /\ \A j, k \in DOMAIN op.log : op.log[j] = op.log[k] => j = k

\* C4 witness: both servers were consulted (one catalog fetched in this operation),
\* the other tool is listed, the requested one is not.
C4_Witness ==
  /\ IsToolOp /\ op.pc = "done" /\ op.result.error = "M_ToolNotFound"
  /\ op.params.tool = "t2" /\ op.params.server = <<>>
  /\ Len(op.lists) = 2 /\ HasTool(op.lists[1], "t1")
  /\ Len(op.log) = 3

\* The step starts an operation.
Starts(operation) ==
  op.pc = "idle" /\ op'.pc # "idle" /\ Operation(op'.params) = operation

\* C13: the status operation (no parameters) issues no RPC and leaves the
\* cache as it is; its line for a server carries a tool count only if the
\* cache holds that server's catalog, and then it is the count of the cached
\* tools.
C13_StatusReadsCacheOnly ==
  [][ Starts("status") =>
        /\ op'.pc = "done" /\ op'.log = <<>> /\ op'.result.ok
        /\ toolCache' = toolCache
        /\ Len(op'.result.status) = Len(servers)
        /\ \A i \in DOMAIN servers :
             LET line == op'.result.status[i]
                 cached == toolCache[servers[i].id]
             IN  /\ line.count >= 0 => (cached.cached /\ line.count = Len(cached.tools))
                 /\ (cached.cached /\ servers[i].enabled) => line.count = Len(cached.tools)
    ]_vars

\* status has answered with a count of two tools for one server and without
\* a count for the other, whose catalog is not cached.
C13_Witness ==
  /\ op.pc = "done" /\ op.result.operation = "status" /\ op.result.ok /\ op.log = <<>>
  /\ \E i, j \in DOMAIN servers :
       /\ op.result.status[i].count = 2 /\ toolCache[servers[i].id].cached
       /\ op.result.status[j].count = -1 /\ ~toolCache[servers[j].id].cached
       /\ servers[j].enabled

\* The handshake with server sid, as the log records it.
Handshake(sid) ==
  << [method |-> "initialize", sid |-> sid],
     [method |-> "notifications/initialized", sid |-> sid],
     [method |-> "tools/list", sid |-> sid] >>

\* C14: connect with a token that resolves to an enabled server issues
\* initialize, notifications/initialized and tools/list to that server, in
\* this order and whether or not the cache holds an entry for it; when it
\* succeeds the server's cache entry is the list tools/list has just returned.
C14_ConnectAlwaysHandshakes ==
  LET r == resolveSingleServer(op.params.connect)
  IN  (op.pc # "idle" /\ op.params.connect # <<>> /\ r.ok) =>
        /\ op.log # <<>> /\ IsPrefix(op.log, Handshake(r.idx))
        /\ op.pc = "await" => op.cur = op.log[Len(op.log)]
        /\ (op.pc = "done" /\ op.result.ok) =>
             /\ op.log = Handshake(r.idx)
             /\ toolCache[servers[r.idx].id] =
                  [cached |-> TRUE, tools |-> parseToolListResult(servers[r.idx], op.listed)]

\* connect has completed its handshake with a server and the cache entry of
\* that server is the one tool just listed.
C14_Witness ==
  /\ op.pc = "done" /\ op.result.ok /\ op.result.operation = "connect"
  /\ Len(op.log) = 3 /\ op.log[3].method = "tools/list"
  /\ op.listed = <<"t1">>
  /\ Len(toolCache[servers[op.log[3].sid].id].tools) = 1

HandshakeMethods == {"initialize", "notifications/initialized", "tools/list"}

\* C15: a cache entry never expires, and while a server's catalog is cached
\* the operations server, search, describe and tool send it no initialize,
\* notifications/initialized or tools/list: a handshake with a cached server
\* belongs to a connect or to the refresh of the stale-catalog retry.
C15_CachedCatalogNotRefetched ==
  [][ /\ \A id \in ServerIds : toolCache[id].cached => toolCache'[id].cached
      /\ ( /\ op'.pc = "await" /\ op'.cur.method \in HandshakeMethods
           /\ toolCache'[servers'[op'.cur.sid].id].cached )
         => \/ Operation(op'.params) = "connect"
            \/ /\ Operation(op'.params) = "tool" /\ op'.phase = "refresh"
               /\ op'.retryApplied /\ isRecoverableToolCallError(op'.firstError)
               /\ op'.cur.sid = op'.target
    ]_vars

\* describe has answered from the cached catalogs of both servers without a
\* single RPC.
C15_Witness ==
  /\ op.pc = "done" /\ op.result.ok /\ op.result.operation = "describe"
  /\ op.log = <<>>
  /\ \A i \in DOMAIN servers : servers[i].enabled /\ toolCache[servers[i].id].cached

\* C16: the retryApplied flag of a tool operation's result, success or
\* failure, is true exactly when the operation issued a second, retried
\* tools/call.
C16_RetryAppliedIffRetried ==
  (op.pc = "done" /\ op.result.operation = "tool")
    => (op.result.retryApplied <=> Calls(op.log) = 2)

\* The servers whose id or display name the token equals once both are
\* trimmed and lower-cased.
Equals(token) ==
  { i \in DOMAIN servers :
      \/ ToLowerCase(Trim(servers[i].id)) = ToLowerCase(Trim(token))
      \/ ToLowerCase(Trim(servers[i].name)) = ToLowerCase(Trim(token)) }

\* The token of the operations that resolve one server from it before any RPC.
ResolvedToken ==
  IF op.params.connect # <<>> THEN op.params.connect
  ELSE IF op.params.describe = "" /\ op.params.search = <<>> THEN op.params.server
  ELSE <<>>

RECURSIVE EnabledCatalog(_)
EnabledCatalog(i) ==
  IF i > Len(servers) THEN <<>>
  ELSE (IF servers[i].enabled THEN toolCache[servers[i].id].tools ELSE <<>>)
         \o EnabledCatalog(i + 1)

\* The query has a maximal blank-free stretch that, lower-cased, is part of
\* the tool's lower-cased name, blank and description; or it has no such
\* stretch at all.
ContainsQueryToken(tool, query) ==
  LET q == ToLowerCase(query)
      text == ToLowerCase(ToolNameTexts[tool.name] \o <<" ">> \o tool.description)
  IN  \/ \A i \in DOMAIN q : q[i] = " "
      \/ \E a, b \in DOMAIN q :
           /\ a <= b
           /\ \A i \in a..b : q[i] # " "
           /\ a = 1 \/ q[a - 1] = " "
           /\ b = Len(q) \/ q[b + 1] = " "
           /\ Includes(text, SubSeq(q, a, b))

\* An execute whose only parameter is `search` has finished.
Searched == op.pc = "done" /\ op.raw = [NoParams EXCEPT !.search = op.raw.search]

\* C29: a search returns exactly the tools of the catalogs of the enabled
\* servers (each of them fetched by then) that contain a token of the query;
\* a query without tokens returns every tool.
C29_SearchReturnsMatches ==
  (Searched /\ op.raw.search # <<>>)
    => /\ op.result.ok
       /\ op.result.operation = "search"
       /\ \A i \in DOMAIN servers : servers[i].enabled => toolCache[servers[i].id].cached
       /\ op.result.more = 0
       /\ op.result.matches
            = SelectSeq(EnabledCatalog(1),
                        LAMBDA tool : ContainsQueryToken(tool, op.raw.search))

\* The same for the searches whose query has a token and that find at most
\* 30 tools.
SearchWithinLimit ==
  (Searched /\ Trim(op.raw.search) # <<>>)
    => /\ op.result.ok
       /\ op.result.operation = "search"
       /\ \A i \in DOMAIN servers : servers[i].enabled => toolCache[servers[i].id].cached
       /\ LET found == SelectSeq(EnabledCatalog(1),
                                 LAMBDA tool : ContainsQueryToken(tool, op.raw.search))
          IN  /\ Len(found) <= 30 => op.result.matches = found /\ op.result.more = 0
              /\ Len(found) > 30
                   => /\ op.result.matches = SubSeq(found, 1, 30)
                      /\ op.result.more = Len(found) - 30

\* A blank query was answered with the status of the servers.
BlankSearchIsStatus ==
  (Searched /\ op.raw.search # <<>> /\ Trim(op.raw.search) = <<>>)
    => op.result.operation = "status" /\ op.result.matches = <<>>

\* C31: a tools/call, first or retried, that ends with the timeout error or with
\* the caller's abort ends the operation with that error: the step issues no
\* further call (no refresh, no retried tools/call) and leaves the cache as it is.
C31_TimeoutOrAbortIsTerminal ==
  [][\A err \in {"E_Timeout", "E_Aborted"} :
       ToolsCallFails(err) =>
         /\ op'.pc = "done"
         /\ ~op'.result.ok
         /\ op'.result.error = err
         /\ op'.log = op.log
         /\ op'.result.retryApplied = op.retryApplied
         /\ toolCache' = toolCache]_vars

\* C31 witness: the first tools/call ended by the caller's abort.
C31_Witness ==
  /\ op.pc = "done" /\ op.firstError = "E_Aborted"
  /\ op.result.error = "E_Aborted" /\ Calls(op.log) = 1

\* The calls of the log from the first tools/call on: the tools/call, the
\* forced refresh of a stale retry and the retried tools/call.
FromFirstCall(log) == SubSeq(log, FirstCallAt(log), Len(log))

\* C37: every tools/call of a tool operation, and every call of its stale-retry
\* refresh, is sent to the server whose id the matched tool descriptor carries.
C37_CallSentToMatchedServer ==
  (IsToolOp /\ Calls(op.log) > 0) =>
    \A k \in DOMAIN FromFirstCall(op.log) :
      servers[FromFirstCall(op.log)[k].sid].id = op.targetTool.serverId

\* The same holds in every configuration without aliasing: no server's display
\* name equals another server's id case-insensitively.
NoAliasing ==
  \A i, j \in DOMAIN servers :
    i # j => normalizeServerToken(servers[i].name) # normalizeServerToken(servers[j].id)

CallSentToMatchedServerUnlessAliased == NoAliasing => C37_CallSentToMatchedServer

\* A step in which a call of the handshake fails: it throws, or tools/list
\* resolves to null.
FetchFails == (\E err \in RpcErrors : HandshakeFails(err)) \/ ToolsListReturnsNull

\* C38: a step in which initialize, notifications/initialized or tools/list
\* fails leaves the cache as it was, and so does every step that sends or
\* completes initialize or the notification; the cache changes only in the
\* step that processes a tools/list response, and then only the entry of the
\* server asked, which becomes the complete list of that response.
C38_FailedFetchLeavesCache ==
  [][/\ FetchFails => toolCache' = toolCache
     /\ toolCache' # toolCache =>
          /\ op.pc = "await" /\ op.cur.method = "tools/list"
          /\ \A id \in ServerIds :
               IF id = servers[op.cur.sid].id
               THEN /\ toolCache'[id].cached
                    /\ toolCache'[id].tools =
                         parseToolListResult(servers[op.cur.sid], op'.listed)
               ELSE toolCache'[id] = toolCache[id]]_vars

\* C38 witness: a forced refresh of a server with a cached catalog has failed
\* at tools/list and the cached catalog is still there.
C38_Witness ==
  /\ op.pc = "done" /\ ~op.result.ok /\ op.refresh
  /\ op.result.error \in RpcErrors \cup {"M_ListNoResponse"}
  /\ op.log # <<>> /\ op.log[Len(op.log)].method = "tools/list"
  /\ LET entry == toolCache[servers[op.log[Len(op.log)].sid].id]
     IN  entry.cached /\ Len(entry.tools) = 2

\* The server a descriptor was cached for, by the id and the name it carries,
\* is an enabled server of the configuration.
FromEnabledServer(tool) ==
  \E i \in DOMAIN servers :
    /\ servers[i].enabled
    /\ servers[i].id = tool.serverId /\ servers[i].name = tool.serverName

\* C39: every call of an operation is sent to a server that is enabled in the
\* configuration of that operation; and the descriptors a search returns, the
\* one a describe returns and the one a tool operation calls were all cached
\* for servers that are enabled.
C39_DisabledServerUntouched ==
  /\ \A k \in DOMAIN op.log : servers[op.log[k].sid].enabled
  /\ (op.pc = "done" /\ op.result.ok) =>
       \A k \in DOMAIN op.result.matches : FromEnabledServer(op.result.matches[k])
  /\ (op.pc # "idle" /\ op.targetTool.name # "") => FromEnabledServer(op.targetTool)

\* No two servers of the configuration share an id.
DistinctServerIds ==
  \A i, j \in DOMAIN servers : i # j => servers[i].id # servers[j].id

\* The same holds in every configuration with distinct ids; and calls go to
\* enabled servers only in every configuration.
DisabledServerUntouchedWithDistinctIds ==
  /\ \A k \in DOMAIN op.log : servers[op.log[k].sid].enabled
  /\ DistinctServerIds => C39_DisabledServerUntouched

(***************************************************************************)
(* The edge server (src/server/index.mjs): the http.createServer callback  *)
(* with its client-ip resolution, origin check, rate limiter and routing.  *)
(* A header is a record: absent, or present with its text.                 *)
(***************************************************************************)
Absent == [present |-> FALSE, value |-> <<>>]

Header(text) == [present |-> TRUE, value |-> text]

StartsWith(s, p) == Len(s) >= Len(p) /\ SubSeq(s, 1, Len(p)) = p

EndsWith(s, p) == Len(s) >= Len(p) /\ SubSeq(s, Len(s) - Len(p) + 1, Len(s)) = p

\* "unknown"
Unknown == <<"u","n","k","n","o","w","n">>

\* "https://" and "http://", and the default ports URL drops from an origin
SchemeHttps == <<"h","t","t","p","s",":","/","/">>
SchemeHttp == <<"h","t","t","p",":","/","/">>
PortHttps == <<":","4","4","3">>
PortHttp == <<":","8","0">>

\* "null": the serialization of an opaque origin
OpaqueOrigin == <<"n","u","l","l">>

\* "/api/", "/healthz", "/api/openrouter/v1", "/api/mcp/jamaica-market"
PathApi == <<"/","a","p","i","/">>
PathHealthz == <<"/","h","e","a","l","t","h","z">>
PathOpenRouter == <<"/","a","p","i","/","o","p","e","n","r","o","u","t","e","r","/","v","1">>
PathManagedMcp == <<"/","a","p","i","/","m","c","p","/","j","a","m","a","i","c","a","-","m","a","r","k","e","t">>

\* Scaled stand-in for RATE_LIMIT_WINDOW_MS (60000 by default).
RATE_LIMIT_WINDOW_MS == 1

MaxTime == 3
MaxM == 2
MaxCalls == 4

\* forwarded.split(",")[0]
FirstField(s) ==
  LET commas == { i \in DOMAIN s : s[i] = "," }
  IN  IF commas = {} THEN s ELSE SubSeq(s, 1, Min(commas) - 1)

normalizeIp(value) ==
  IF ~value.present THEN Unknown
  ELSE IF Trim(value.value) = <<>> THEN Unknown
  ELSE Trim(value.value)

\* req.headers["x-forwarded-for"] is a string in Node (repeats are joined with ", ").
getClientIp(req) ==
  IF req.forwarded.present /\ Trim(req.forwarded.value) # <<>>
  THEN normalizeIp(Header(FirstField(req.forwarded.value)))
  ELSE IF req.remoteAddress.present /\ req.remoteAddress.value # <<>>
       THEN normalizeIp(req.remoteAddress)
       ELSE normalizeIp(Header(Unknown))

NoOrigin == [ok |-> FALSE, origin |-> <<>>]

\* The authority of a special-scheme URL: up to the first "/", "?" or "#".
Authority(rest) ==
  LET stops == { i \in DOMAIN rest : rest[i] \in {"/", "?", "#"} }
  IN  IF stops = {} THEN rest ELSE SubSeq(rest, 1, Min(stops) - 1)

StripPort(authority, port) ==
  IF EndsWith(authority, port)
  THEN SubSeq(authority, 1, Len(authority) - Len(port))
  ELSE authority

\* new URL(text).origin: http(s) URLs give scheme://host[:port] in lower case
\* without the default port; any other scheme gives the opaque origin "null";
\* text without a scheme makes the constructor throw.
URLOrigin(text) ==
  LET lower == ToLowerCase(text)
      colons == { i \in DOMAIN lower : lower[i] = ":" }
      Special(scheme, port) ==
        LET a == StripPort(Authority(SubSeq(lower, Len(scheme) + 1, Len(lower))), port)
        IN  IF a = <<>> THEN NoOrigin ELSE [ok |-> TRUE, origin |-> scheme \o a]
  IN  IF StartsWith(lower, SchemeHttps) THEN Special(SchemeHttps, PortHttps)
      ELSE IF StartsWith(lower, SchemeHttp) THEN Special(SchemeHttp, PortHttp)
      ELSE IF /\ colons # {}
              /\ Min(colons) > 1
              /\ \A i \in 1..(Min(colons) - 1) :
                   \E k \in DOMAIN LowerChars : LowerChars[k] = lower[i]
           THEN [ok |-> TRUE, origin |-> OpaqueOrigin]
      ELSE NoOrigin

normalizeOrigin(value) ==
  IF ~value.present THEN NoOrigin
  ELSE IF Trim(value.value) = <<>> THEN NoOrigin
  ELSE URLOrigin(Trim(value.value))

getAllowedOrigins(req) ==
  IF CONFIGURED_ALLOWED_ORIGINS # {} THEN CONFIGURED_ALLOWED_ORIGINS
  ELSE LET host == IF req.host.present THEN Trim(req.host.value) ELSE <<>>
       IN  IF host = <<>> THEN {} ELSE {SchemeHttps \o host, SchemeHttp \o host}

\* An origin check that consults the allow-list before it looks at the header.
isApiOriginAllowed_ListFirst(req) ==
  LET origin == normalizeOrigin(req.origin)
      allowedOrigins == getAllowedOrigins(req)
  IN  IF allowedOrigins = {} THEN FALSE
      ELSE IF ~origin.ok THEN TRUE
      ELSE origin.origin \in allowedOrigins

isApiOriginAllowed(req) ==
  LET origin == normalizeOrigin(req.origin)
      allowedOrigins == getAllowedOrigins(req)
  IN  IF ~origin.ok THEN TRUE
      ELSE IF allowedOrigins = {} THEN FALSE
      ELSE origin.origin \in allowedOrigins

\* Map.prototype.set
MapSet(map, key, value) ==
  [ k \in DOMAIN map \cup {key} |-> IF k = key THEN value ELSE map[k] ]

\* A limiter that rejects as soon as the count reaches the maximum.
isRateLimited_AtMax(state, ip, nowMs) ==
  IF ip \notin DOMAIN state \/ nowMs - state[ip].startedAt >= RATE_LIMIT_WINDOW_MS
  THEN [state |-> MapSet(state, ip, [startedAt |-> nowMs, count |-> 1]), limited |-> FALSE]
  ELSE LET count == state[ip].count + 1
       IN  [state |-> MapSet(state, ip, [state[ip] EXCEPT !.count = count]),
            limited |-> count >= RATE_LIMIT_MAX_REQUESTS]

\* A limiter that decides on the count it read before its own increment, as
\* a request would whose update is lost to another one's.
isRateLimited_StaleCount(state, ip, nowMs) ==
  IF ip \notin DOMAIN state \/ nowMs - state[ip].startedAt >= RATE_LIMIT_WINDOW_MS
  THEN [state |-> MapSet(state, ip, [startedAt |-> nowMs, count |-> 1]), limited |-> FALSE]
  ELSE LET count == state[ip].count + 1
       IN  [state |-> MapSet(state, ip, [state[ip] EXCEPT !.count = count]),
            limited |-> state[ip].count > RATE_LIMIT_MAX_REQUESTS]

\* The Map after the call, and the value returned.
isRateLimited(state, ip, nowMs) ==
  IF ip \notin DOMAIN state \/ nowMs - state[ip].startedAt >= RATE_LIMIT_WINDOW_MS
  THEN [state |-> MapSet(state, ip, [startedAt |-> nowMs, count |-> 1]), limited |-> FALSE]
  ELSE LET count == state[ip].count + 1
       IN  [state |-> MapSet(state, ip, [state[ip] EXCEPT !.count = count]),
            limited |-> count > RATE_LIMIT_MAX_REQUESTS]

\* A sweep that removes every entry, open windows included.
cleanupRateLimitState_All(state, nowMs) ==
  [ ip \in { k \in DOMAIN state : ~(nowMs - state[k].startedAt >= 0) } |-> state[ip] ]

\* A sweep that removes nothing.
cleanupRateLimitState_Keep(state, nowMs) == state

cleanupRateLimitState(state, nowMs) ==
  [ ip \in { k \in DOMAIN state : ~(nowMs - state[k].startedAt > RATE_LIMIT_WINDOW_MS * 2) }
      |-> state[ip] ]

\* Where the callback sends a request that passed the /api/ stages.
Route(pathname) ==
  IF pathname = PathHealthz THEN [status |-> 200, stage |-> "healthz"]
  ELSE IF StartsWith(pathname, PathOpenRouter) THEN [status |-> 0, stage |-> "handleOpenRouterProxy"]
  ELSE IF pathname = PathManagedMcp THEN [status |-> 0, stage |-> "handleManagedMcpRpc"]
  ELSE IF StartsWith(pathname, PathApi) THEN [status |-> 404, stage |-> "unknown-api"]
  ELSE [status |-> 0, stage |-> "serveStatic"]

NoRequest ==
  [ req |-> [pathname |-> <<>>, origin |-> Absent, host |-> Absent,
             forwarded |-> Absent, remoteAddress |-> Absent],
    ip |-> <<>>, status |-> 0, stage |-> "none" ]

\* Requests on which the rate limiter is exercised: API requests from two
\* client addresses ("1" by socket or by the first forwarded entry, "unknown"
\* by an empty first entry), one the origin stage rejects, one off the API.
RateRequests ==
  LET request(p, o, f) ==
        [pathname |-> p, origin |-> o, host |-> Header(<<"a",".","i","o">>),
         forwarded |-> f, remoteAddress |-> Header(<<"1">>)]
      models == PathOpenRouter \o <<"/","m","o","d","e","l","s">>
  IN  { request(models, Absent, f) :
          f \in {Absent, Header(<<"1"," ",",","2">>), Header(<<" ",",","1">>)} }
      \cup { request(models, Header(SchemeHttps \o <<"e",".","i","o">>), Absent),
             request(PathHealthz, Absent, Absent) }

\* Origin header values: none, "", the application's origin in two spellings,
\* its http twin, a foreign origin, and three values URL cannot resolve to a
\* tuple origin ("null", "e.io", "file:///x").
OriginHeaders ==
  { Absent, Header(<<>>),
    Header(SchemeHttps \o <<"a",".","i","o">>),
    Header(<<"H","T","T","P","S",":","/","/","A",".","i","o",":","4","4","3","/","x">>),
    Header(SchemeHttp \o <<"a",".","i","o">>),
    Header(SchemeHttps \o <<"e",".","i","o">>),
    Header(OpaqueOrigin),
    Header(<<"e",".","i","o">>),
    Header(<<"f","i","l","e",":","/","/","/","x">>) }

OriginRequests ==
  { [pathname |-> p, origin |-> o, host |-> h,
     forwarded |-> Absent, remoteAddress |-> a] :
      p \in {PathManagedMcp, PathApi \o <<"x">>, <<"/">>},
      o \in OriginHeaders,
      h \in {Absent, Header(<<"a",".","i","o">>), Header(<<"e",".","i","o">>)},
      a \in {Absent} }

AllowLists == { {}, {SchemeHttps \o <<"a",".","i","o">>} }

\* A callback that consults the rate limiter before the origin check.
createServer_RateFirst(req) ==
  /\ Len(limiterCalls) < MaxCalls
  /\ LET swept == cleanupRateLimitState(RATE_LIMIT_STATE, now)
         ip == getClientIp(req)
         api == StartsWith(req.pathname, PathApi)
         rl == isRateLimited(swept, ip, now)
     IN  IF api
         THEN /\ RATE_LIMIT_STATE' = rl.state
              /\ limiterCalls' = Append(limiterCalls,
                     [ip |-> ip, at |-> now, limited |-> rl.limited,
                      status |-> IF rl.limited THEN 429
                                 ELSE IF ~isApiOriginAllowed(req) THEN 403
                                 ELSE Route(req.pathname).status])
              /\ last' = IF rl.limited
                         THEN [req |-> req, ip |-> ip, status |-> 429, stage |-> "rate"]
                         ELSE IF ~isApiOriginAllowed(req)
                         THEN [req |-> req, ip |-> ip, status |-> 403, stage |-> "origin"]
                         ELSE [req |-> req, ip |-> ip] @@ Route(req.pathname)
         ELSE /\ RATE_LIMIT_STATE' = swept
              /\ limiterCalls' = limiterCalls
              /\ last' = [req |-> req, ip |-> ip] @@ Route(req.pathname)
  /\ UNCHANGED <<CONFIGURED_ALLOWED_ORIGINS, RATE_LIMIT_MAX_REQUESTS, now>>

\* The callback of http.createServer up to the handler it awaits: the sweep,
\* the origin check, the rate limiter and the route.
createServer(req) ==
  /\ Len(limiterCalls) < MaxCalls
  /\ LET swept == cleanupRateLimitState(RATE_LIMIT_STATE, now)
         ip == getClientIp(req)
         api == StartsWith(req.pathname, PathApi)
         rl == isRateLimited(swept, ip, now)
     IN  IF api /\ ~isApiOriginAllowed(req)
         THEN /\ RATE_LIMIT_STATE' = swept
              /\ limiterCalls' = limiterCalls
              /\ last' = [req |-> req, ip |-> ip, status |-> 403, stage |-> "origin"]
         ELSE IF api
         THEN /\ RATE_LIMIT_STATE' = rl.state
              /\ limiterCalls' = Append(limiterCalls,
                     [ip |-> ip, at |-> now, limited |-> rl.limited,
                      status |-> IF rl.limited THEN 429 ELSE Route(req.pathname).status])
              /\ last' = IF rl.limited
                         THEN [req |-> req, ip |-> ip, status |-> 429, stage |-> "rate"]
                         ELSE [req |-> req, ip |-> ip] @@ Route(req.pathname)
         ELSE /\ RATE_LIMIT_STATE' = swept
              /\ limiterCalls' = limiterCalls
              /\ last' = [req |-> req, ip |-> ip] @@ Route(req.pathname)
  /\ UNCHANGED <<CONFIGURED_ALLOWED_ORIGINS, RATE_LIMIT_MAX_REQUESTS, now>>

\* A request whose handler, if it reaches one, is not followed here.
HttpRequest(req) ==
  /\ createServer(req)
  /\ UNCHANGED <<gwVars, proxyVars, managedVars, clientVars>>

\* The clock advances between requests.
Tick ==
  /\ now < MaxTime
  /\ now' = now + 1
  /\ UNCHANGED <<CONFIGURED_ALLOWED_ORIGINS, RATE_LIMIT_MAX_REQUESTS, RATE_LIMIT_STATE,
                 limiterCalls, last>>
  /\ UNCHANGED <<gwVars, proxyVars, managedVars, clientVars>>

EdgeInit ==
  /\ CONFIGURED_ALLOWED_ORIGINS \in AllowLists
  /\ RATE_LIMIT_MAX_REQUESTS \in 1..MaxM
  /\ RATE_LIMIT_STATE = <<>>
  /\ now = 0
  /\ limiterCalls = <<>>
  /\ last = NoRequest

EdgeNext ==
  \/ \E req \in RateRequests : HttpRequest(req)
  \/ Tick

\* The origin check does not read the clock: requests arrive at one instant.
OriginNext ==
  \E req \in OriginRequests : HttpRequest(req)

(***************************************************************************)
(* Claims about the rate limiter and the origin check.                     *)
(***************************************************************************)
Max(S) == CHOOSE x \in S : \A y \in S : y <= x

\* The start of the window the k-th limiter call of the history falls in, by
\* the rule of the claim: the first request of an address starts a window, and
\* so does the first one at or after the start of its window plus windowMs.
RECURSIVE WindowStartedAt(_)
WindowStartedAt(k) ==
  LET earlier == { i \in 1..(k - 1) : limiterCalls[i].ip = limiterCalls[k].ip }
  IN  IF earlier = {} THEN limiterCalls[k].at
      ELSE LET started == WindowStartedAt(Max(earlier))
           IN  IF limiterCalls[k].at - started >= RATE_LIMIT_WINDOW_MS
               THEN limiterCalls[k].at
               ELSE started

\* The rank of the k-th call among the calls of its address in its window.
PositionInWindow(k) ==
  Cardinality({ i \in 1..k : /\ limiterCalls[i].ip = limiterCalls[k].ip
                             /\ WindowStartedAt(i) = WindowStartedAt(k) })

IsLatestOfIp(k) ==
  \A i \in DOMAIN limiterCalls : limiterCalls[i].ip = limiterCalls[k].ip => i <= k

\* C7: for every client address and maximum M >= 1, of the API requests that
\* reach the limiter within one window exactly the first M are admitted and
\* each later one is answered 429; the first request at or after the window's
\* start plus windowMs is admitted and starts a window with count 1, whatever
\* was rejected before. The Map holds the start and the count of the current
\* window, and an entry is swept only when its window is over.
C7_RateLimiterWindows ==
  \A k \in DOMAIN limiterCalls :
    /\ limiterCalls[k].limited <=> PositionInWindow(k) > RATE_LIMIT_MAX_REQUESTS
    /\ limiterCalls[k].limited <=> limiterCalls[k].status = 429
    /\ (PositionInWindow(k) = 1) =>
         /\ WindowStartedAt(k) = limiterCalls[k].at
         /\ ~limiterCalls[k].limited
    /\ IsLatestOfIp(k) =>
         IF limiterCalls[k].ip \in DOMAIN RATE_LIMIT_STATE
         THEN RATE_LIMIT_STATE[limiterCalls[k].ip] =
                [startedAt |-> WindowStartedAt(k), count |-> PositionInWindow(k)]
         ELSE now - WindowStartedAt(k) >= RATE_LIMIT_WINDOW_MS

\* A request is admitted at the start of a new window after two requests of
\* the same address were rejected in the window before.
C7_Witness ==
  /\ Len(limiterCalls) = 4
  /\ \A k \in 1..4 : limiterCalls[k].ip = limiterCalls[1].ip
  /\ ~limiterCalls[1].limited
  /\ limiterCalls[2].limited /\ limiterCalls[3].limited
  /\ WindowStartedAt(3) = limiterCalls[1].at
  /\ limiterCalls[4].at = limiterCalls[1].at + RATE_LIMIT_WINDOW_MS
  /\ ~limiterCalls[4].limited
  /\ RATE_LIMIT_STATE[limiterCalls[4].ip] = [startedAt |-> limiterCalls[4].at, count |-> 1]

IsApiRequest == last.stage # "none" /\ StartsWith(last.req.pathname, PathApi)

\* The origin of the request is in the configured allow-list or, when none is
\* configured, is http://<Host> or https://<Host> of the request.
OriginPermitted(req) ==
  LET resolved == URLOrigin(Trim(req.origin.value))
  IN  /\ resolved.ok
      /\ IF CONFIGURED_ALLOWED_ORIGINS # {}
         THEN resolved.origin \in CONFIGURED_ALLOWED_ORIGINS
         ELSE /\ req.host.present
              /\ resolved.origin \in {SchemeHttp \o req.host.value, SchemeHttps \o req.host.value}

\* C8: an API request with a non-empty Origin header is answered 403 unless
\* its origin is in the configured allow-list or, with no allow-list
\* configured, is http://<Host> or https://<Host> of the request.
C8_OriginRejectedUnlessAllowed ==
  (IsApiRequest /\ last.req.origin.present /\ last.req.origin.value # <<>>
     /\ ~OriginPermitted(last.req))
    => last.status = 403

\* C9: an API request without an Origin header is never answered 403 by the
\* origin stage, whatever the allow-list and the Host header are; it goes on
\* to the rate limiter.
C9_NoOriginNeverRejected ==
  (IsApiRequest /\ ~last.req.origin.present) =>
    /\ last.stage # "origin"
    /\ last.status # 403
    /\ limiterCalls # <<>>
    /\ limiterCalls[Len(limiterCalls)].ip = last.ip

\* No Origin, no allow-list and no Host: the allowed set is empty and the
\* request still passes the origin stage.
C9_Witness ==
  /\ IsApiRequest /\ ~last.req.origin.present
  /\ CONFIGURED_ALLOWED_ORIGINS = {} /\ ~last.req.host.present
  /\ last.stage = "handleManagedMcpRpc"

\* A step of the callback for some request.
RequestHandled == \E req \in RateRequests : HttpRequest(req)

\* The callback calls the limiter in this step (an API request that passed
\* the origin check).
LimiterCalled == limiterCalls' # limiterCalls

\* C35: a limiter call for an address whose entry has now - startedAt >=
\* windowMs restarts the entry at {startedAt: now, count: 1} and admits the
\* request, a call inside the window adds one to the count; and right after
\* the callback (which begins with the sweep) the Map holds no entry with
\* now - startedAt > 2 x windowMs.
C35_MapMaintenance ==
  [][RequestHandled =>
       /\ \A ip \in DOMAIN RATE_LIMIT_STATE' :
            ~(now - RATE_LIMIT_STATE'[ip].startedAt > 2 * RATE_LIMIT_WINDOW_MS)
       /\ LimiterCalled =>
            LET this == limiterCalls'[Len(limiterCalls')]
            IN  IF this.ip \notin DOMAIN RATE_LIMIT_STATE
                THEN RATE_LIMIT_STATE'[this.ip] = [startedAt |-> now, count |-> 1]
                ELSE IF now - RATE_LIMIT_STATE[this.ip].startedAt >= RATE_LIMIT_WINDOW_MS
                THEN /\ RATE_LIMIT_STATE'[this.ip] = [startedAt |-> now, count |-> 1]
                     /\ ~this.limited
                ELSE RATE_LIMIT_STATE'[this.ip] =
                       [startedAt |-> RATE_LIMIT_STATE[this.ip].startedAt,
                        count |-> RATE_LIMIT_STATE[this.ip].count + 1]]_vars

\* C35 witness: an address was limited in its first window and its entry has
\* restarted at count 1 exactly windowMs later, and the entry of another
\* address, older than two windows, has been swept.
C35_Witness ==
  /\ Len(limiterCalls) = 4
  /\ limiterCalls[1].ip # limiterCalls[2].ip
  /\ limiterCalls[3].ip = limiterCalls[2].ip /\ limiterCalls[4].ip = limiterCalls[2].ip
  /\ limiterCalls[3].limited
  /\ limiterCalls[4].at = limiterCalls[2].at + RATE_LIMIT_WINDOW_MS
  /\ now = limiterCalls[4].at
  /\ now - limiterCalls[1].at > 2 * RATE_LIMIT_WINDOW_MS
  /\ DOMAIN RATE_LIMIT_STATE = {limiterCalls[4].ip}
  /\ RATE_LIMIT_STATE[limiterCalls[4].ip] = [startedAt |-> now, count |-> 1]

\* The client addresses of the requests.
ClientIps == { getClientIp(req) : req \in RateRequests }

\* C36: the sweep keeps every entry whose window is still open (now -
\* startedAt < windowMs) as it is, and for every address the limiter returns
\* the same decision and leaves the same entry for it whether it runs on the
\* swept Map or on the Map as it was.
C36_SweepKeepsOpenWindows ==
  LET swept == cleanupRateLimitState(RATE_LIMIT_STATE, now)
  IN  /\ \A ip \in DOMAIN RATE_LIMIT_STATE :
           now - RATE_LIMIT_STATE[ip].startedAt < RATE_LIMIT_WINDOW_MS
             => ip \in DOMAIN swept /\ swept[ip] = RATE_LIMIT_STATE[ip]
      /\ \A ip \in ClientIps :
           LET after == isRateLimited(swept, ip, now)
               plain == isRateLimited(RATE_LIMIT_STATE, ip, now)
           IN  /\ after.limited = plain.limited
               /\ after.state[ip] = plain.state[ip]

\* C36 witness: the Map holds the entry of an address that had gone over the
\* maximum and is now older than two windows: the sweep removes it, so the
\* next request of that address is decided with and without the entry.
C36_Witness ==
  \E ip \in DOMAIN RATE_LIMIT_STATE :
    /\ now - RATE_LIMIT_STATE[ip].startedAt > 2 * RATE_LIMIT_WINDOW_MS
    /\ RATE_LIMIT_STATE[ip].count > RATE_LIMIT_MAX_REQUESTS
    /\ ip \notin DOMAIN cleanupRateLimitState(RATE_LIMIT_STATE, now)

(***************************************************************************)
(* The LLM passthrough (handleOpenRouterProxy).  Credentials are text;     *)
(* model identifiers are compared whole (Set.prototype.has), so they are   *)
(* strings.  A body is the sizes of its chunks and what JSON.parse makes   *)
(* of its text.                                                            *)
(***************************************************************************)
\* "managed-openrouter-key"
MANAGED_OPENROUTER_API_KEY_SENTINEL == <<"m","a","n","a","g","e","d","-","o","p","e","n","r","o","u","t","e","r","-","k","e","y">>

\* The server's own key (the environment's OPENROUTER_API_KEY): "sk-s"
OPENROUTER_API_KEY == <<"s","k","-","s">>

\* "Bearer "
BearerPrefix == <<"B","e","a","r","e","r"," ">>

\* A key of the client's own: "sk-c"
ClientKey == <<"s","k","-","c">>

OPENROUTER_CURATED_MODELS ==
  { "google/gemini-3.1-pro-preview", "anthropic/claude-sonnet-4.6",
    "openai/gpt-5.2-codex", "moonshotai/kimi-k2.5", "minimax/minimax-m2.5" }

\* Scaled stand-in for REQUEST_BODY_LIMIT_BYTES (1 MiB by default).
REQUEST_BODY_LIMIT_BYTES == 4

\* The methods OPENROUTER_ROUTE_RULES allows on a path; {} for no rule.
OPENROUTER_ROUTE_RULES(relativePath) ==
  IF relativePath \in {"/chat/completions", "/responses"} THEN {"POST"}
  ELSE IF relativePath = "/models" THEN {"GET"}
  ELSE {}

\* An allow-list check that lets the empty identifier pass.
isOpenRouterCuratedModelId_OrEmpty(modelId) ==
  modelId = "" \/ modelId \in OPENROUTER_CURATED_MODELS

isOpenRouterCuratedModelId(modelId) == modelId \in OPENROUTER_CURATED_MODELS

\* x-api-key as Node can deliver it: undefined, a string, or an array of strings.
NoKey == [kind |-> "undefined", value |-> <<>>, values |-> <<>>]

KeyString(text) == [kind |-> "string", value |-> text, values |-> <<>>]

KeyArray(texts) == [kind |-> "array", value |-> <<>>, values |-> texts]

\* A credential check that looks at the Authorization header only.
hasUnmanagedClientCredentials_AuthorizationOnly(req) ==
  LET managedBearer == BearerPrefix \o MANAGED_OPENROUTER_API_KEY_SENTINEL
      authHeader == req.authorization
  IN  authHeader.present /\ Trim(authHeader.value) # <<>>
        /\ Trim(authHeader.value) # managedBearer

hasUnmanagedClientCredentials(req) ==
  LET managedBearer == BearerPrefix \o MANAGED_OPENROUTER_API_KEY_SENTINEL
      managedApiKey == MANAGED_OPENROUTER_API_KEY_SENTINEL
      authHeader == req.authorization
      xApiKey == req.xApiKey
  IN  \/ /\ authHeader.present /\ Trim(authHeader.value) # <<>>
         /\ Trim(authHeader.value) # managedBearer
      \/ /\ xApiKey.kind = "string" /\ Trim(xApiKey.value) # <<>>
         /\ Trim(xApiKey.value) # managedApiKey
      \/ /\ xApiKey.kind = "array"
         /\ \E i \in DOMAIN xApiKey.values :
              Trim(xApiKey.values[i]) # <<>> /\ Trim(xApiKey.values[i]) # managedApiKey

\* The length of the buffer, or a throw at the first chunk that takes the total
\* over maxBytes.
\* A read loop that pushes the chunk before it tests the total.
RECURSIVE ReadChunks_PushFirst(_, _, _, _)
ReadChunks_PushFirst(chunks, total, taken, maxBytes) ==
  IF chunks = <<>>
  THEN [ok |-> TRUE, length |-> total, buffered |-> total, taken |-> taken]
  ELSE IF total + Head(chunks) > maxBytes
  THEN [ok |-> FALSE, length |-> 0, buffered |-> total + Head(chunks), taken |-> taken + 1]
  ELSE ReadChunks_PushFirst(Tail(chunks), total + Head(chunks), taken + 1, maxBytes)

\* buffered is the size of the chunks array when the loop is left, taken the
\* number of chunks the loop took from the stream.
RECURSIVE ReadChunks(_, _, _, _)
ReadChunks(chunks, total, taken, maxBytes) ==
  IF chunks = <<>>
  THEN [ok |-> TRUE, length |-> total, buffered |-> total, taken |-> taken]
  ELSE IF total + Head(chunks) > maxBytes
  THEN [ok |-> FALSE, length |-> 0, buffered |-> total, taken |-> taken + 1]
  ELSE ReadChunks(Tail(chunks), total + Head(chunks), taken + 1, maxBytes)

readRequestBody(body, maxBytes) == ReadChunks(body.chunks, 0, 0, maxBytes)

\* What JSON.parse makes of a text: it throws, or gives a value of a kind; an
\* object has a model member of a type (and, for a string, a value).
InvalidJson == [valid |-> FALSE, kind |-> "none", modelType |-> "undefined", model |-> ""]

JsonValue(kind) == [valid |-> TRUE, kind |-> kind, modelType |-> "undefined", model |-> ""]

JsonObject(modelType, model) ==
  [valid |-> TRUE, kind |-> "object", modelType |-> modelType, model |-> model]

\* A parser that reads a text JSON.parse rejects as {} too.
parseJsonBody_EmptyOnError(length, json) ==
  IF length = 0 \/ ~json.valid THEN [ok |-> TRUE, value |-> JsonValue("object")]
  ELSE [ok |-> TRUE, value |-> json]

\* An empty buffer is read as {} without JSON.parse being called.
parseJsonBody(length, json) ==
  IF length = 0 THEN [ok |-> TRUE, value |-> JsonValue("object")]
  ELSE IF json.valid THEN [ok |-> TRUE, value |-> json]
  ELSE [ok |-> FALSE, value |-> InvalidJson]

IdleProxy ==
  [ pc |-> "idle",
    req |-> [relativePath |-> "", method |-> "", authorization |-> Absent,
             xApiKey |-> NoKey, body |-> [chunks |-> <<>>, json |-> InvalidJson]],
    status |-> 0, reason |-> "none", upstream |-> <<>>,
    read |-> [buffered |-> 0, taken |-> 0], parsed |-> FALSE,
    timer |-> "none" ]

\* withTimeout(timeoutMs): the timer is armed ("pending" until it fires or is
\* cleared); when it fires it aborts the signal of the call.
withTimeout == "pending"

\* A clear that leaves the timer armed.
timeoutClear_KeepArmed(timer) == timer

\* timeout.clear(): clearTimeout disarms a pending timer and does nothing to
\* one that has fired.
timeoutClear(timer) == IF timer = "pending" THEN "cleared" ELSE timer

Respond(p, status, reason) ==
  [p EXCEPT !.pc = "done", !.status = status, !.reason = reason]

\* fetch(target, {method, body, headers: {Authorization, Content-Type, Accept}})
Fetch(p) ==
  [p EXCEPT !.pc = "fetch", !.timer = withTimeout,
            !.upstream = Append(@, [relativePath |-> p.req.relativePath,
                                    method |-> p.req.method,
                                    headers |-> {"Authorization", "Content-Type", "Accept"},
                                    authorization |-> BearerPrefix \o OPENROUTER_API_KEY])]

ModelStrings == { "openai/gpt-5.2-codex", "minimax/minimax-m2.5", "openai/gpt-4o",
                  "OpenAI/GPT-5.2-Codex", "" }

JsonTexts ==
  { InvalidJson, JsonValue("null"), JsonValue("array"), JsonValue("object"),
    JsonObject("number", ""), JsonObject("null", "") }
  \cup { JsonObject("string", m) : m \in ModelStrings }

Bodies ==
  { [chunks |-> <<>>, json |-> InvalidJson] }
  \cup { [chunks |-> c, json |-> j] : c \in {<<2, 2>>, <<3, 2, 1>>}, j \in JsonTexts }

AuthorizationHeaders ==
  { Absent, Header(<<" ">>),
    Header(BearerPrefix \o MANAGED_OPENROUTER_API_KEY_SENTINEL),
    Header(MANAGED_OPENROUTER_API_KEY_SENTINEL),
    Header(BearerPrefix \o ClientKey) }

ApiKeyHeaders ==
  { NoKey, KeyString(<<>>), KeyString(MANAGED_OPENROUTER_API_KEY_SENTINEL),
    KeyString(ClientKey),
    KeyString(MANAGED_OPENROUTER_API_KEY_SENTINEL \o <<",", " ">> \o ClientKey),
    KeyArray(<<MANAGED_OPENROUTER_API_KEY_SENTINEL, ClientKey>>) }

ProxyRequests ==
  { [relativePath |-> p, method |-> m, authorization |-> a, xApiKey |-> k, body |-> b] :
      p \in {"/chat/completions", "/responses", "/models", "/embeddings"},
      m \in {"GET", "POST"},
      a \in AuthorizationHeaders, k \in ApiKeyHeaders, b \in Bodies }

\* handleOpenRouterProxy up to its first await.
handleOpenRouterProxy(req) ==
  LET p == [px EXCEPT !.req = req]
      allowedMethods == OPENROUTER_ROUTE_RULES(req.relativePath)
  IN  IF hasUnmanagedClientCredentials(req) THEN Respond(p, 400, "credentials")
      ELSE IF allowedMethods = {} THEN Respond(p, 404, "route")
      ELSE IF req.method \notin allowedMethods THEN Respond(p, 405, "method")
      ELSE IF req.method = "POST" THEN [p EXCEPT !.pc = "body"]
      ELSE Fetch(p)

ProxyRequest(req) ==
  /\ px.pc = "idle"
  /\ px' = handleOpenRouterProxy(req)
  /\ UNCHANGED <<gwVars, edgeVars, managedVars, clientVars>>

\* readRequestBody settles: 413, or parseJsonBody, the model check and the fetch.
ProxyBodyRead ==
  /\ px.pc = "body"
  /\ LET req == px.req
         bodyBuffer == readRequestBody(req.body, REQUEST_BODY_LIMIT_BYTES)
         parsed == parseJsonBody(bodyBuffer.length, req.body.json)
         model == IF parsed.value.kind = "object" /\ parsed.value.modelType = "string"
                  THEN parsed.value.model ELSE ""
         p == [px EXCEPT !.read = [buffered |-> bodyBuffer.buffered,
                                   taken |-> bodyBuffer.taken],
                         !.parsed = bodyBuffer.ok]
     IN  px' = IF ~bodyBuffer.ok THEN Respond(p, 413, "body")
               ELSE IF ~parsed.ok THEN Respond(p, 400, "json")
               ELSE IF /\ req.relativePath \in {"/chat/completions", "/responses"}
                       /\ ~isOpenRouterCuratedModelId(model)
                    THEN Respond(p, 400, "model")
               ELSE Fetch(p)
  /\ UNCHANGED <<gwVars, edgeVars, managedVars, clientVars>>

\* The timer fires before the upstream has answered: the signal is aborted.
ProxyTimerFires ==
  /\ px.pc = "fetch" /\ px.timer = "pending"
  /\ px' = [px EXCEPT !.timer = "fired"]
  /\ UNCHANGED <<gwVars, edgeVars, managedVars, clientVars>>

\* The upstream answers: its status is passed through; finally clears the timer.
ProxyUpstreamResponds(status) ==
  /\ px.pc = "fetch" /\ px.timer = "pending"
  /\ px' = [Respond(px, status, "upstream") EXCEPT !.timer = timeoutClear(@)]
  /\ UNCHANGED <<gwVars, edgeVars, managedVars, clientVars>>

\* fetch rejects (network error or the timeout's abort): 502.
ProxyUpstreamFails ==
  /\ px.pc = "fetch"
  /\ px' = [Respond(px, 502, "fetch") EXCEPT !.timer = timeoutClear(@)]
  /\ UNCHANGED <<gwVars, edgeVars, managedVars, clientVars>>

\* The response is sent; the handler is ready for the next request.
ProxyDone ==
  /\ px.pc = "done"
  /\ px' = IdleProxy
  /\ UNCHANGED <<gwVars, edgeVars, managedVars, clientVars>>

ProxyInit == px = IdleProxy

ProxyNext ==
  \/ \E req \in ProxyRequests : ProxyRequest(req)
  \/ ProxyBodyRead
  \/ \E status \in {200, 400, 401, 403, 413, 500} : ProxyUpstreamResponds(status)
  \/ ProxyUpstreamFails
  \/ ProxyTimerFires
  \/ ProxyDone

(***************************************************************************)
(* Claims about the passthrough.                                           *)
(***************************************************************************)
\* The values a request carries in its Authorization and x-api-key headers.
CredentialValues(req) ==
  (IF req.authorization.present THEN {Trim(req.authorization.value)} ELSE {})
  \cup (IF req.xApiKey.kind = "string" THEN {Trim(req.xApiKey.value)} ELSE {})
  \cup { Trim(req.xApiKey.values[i]) : i \in DOMAIN req.xApiKey.values }

\* Some header carries a non-empty value that is not the managed sentinel
\* (as a Bearer credential in Authorization, bare in x-api-key).
CarriesForeignCredential(req) ==
  \/ /\ req.authorization.present
     /\ Trim(req.authorization.value)
          \notin {<<>>, BearerPrefix \o MANAGED_OPENROUTER_API_KEY_SENTINEL}
  \/ \E v \in CredentialValues([req EXCEPT !.authorization = Absent]) :
       v \notin {<<>>, MANAGED_OPENROUTER_API_KEY_SENTINEL}

\* C5: a passthrough request with an Authorization or x-api-key header whose
\* non-empty value is not the managed sentinel is answered 400 and nothing is
\* sent upstream; every upstream request carries the server's own key as its
\* only credential, never the sentinel and never a value the client sent.
C5_ClientCredentialsNeverForwarded ==
  /\ (px.pc # "idle" /\ CarriesForeignCredential(px.req)) =>
       /\ px.pc = "done" /\ px.status = 400 /\ px.reason = "credentials"
       /\ px.upstream = <<>>
  /\ \A i \in DOMAIN px.upstream :
       LET sent == px.upstream[i]
       IN  /\ sent.authorization = BearerPrefix \o OPENROUTER_API_KEY
           /\ sent.headers = {"Authorization", "Content-Type", "Accept"}
           /\ ~Includes(sent.authorization, MANAGED_OPENROUTER_API_KEY_SENTINEL)
           /\ \A v \in CredentialValues(px.req) :
                v # <<>> => sent.authorization # v /\ ~CarriesForeignCredential(px.req)
  /\ Len(px.upstream) <= 1

\* The Authorization header is the managed one and x-api-key is the client's.
C5_Witness ==
  /\ px.pc = "done" /\ px.status = 400 /\ px.upstream = <<>>
  /\ px.req.relativePath = "/chat/completions" /\ px.req.method = "POST"
  /\ px.req.authorization = Header(BearerPrefix \o MANAGED_OPENROUTER_API_KEY_SENTINEL)
  /\ px.req.xApiKey = KeyString(ClientKey)
  /\ px.req.body.json = JsonObject("string", "openai/gpt-5.2-codex")

\* The body of the request names a curated model: it is within the body limit,
\* it is a JSON object, and its model member is a string of the allow-list.
NamesCuratedModel(req) ==
  /\ readRequestBody(req.body, REQUEST_BODY_LIMIT_BYTES).ok
  /\ req.body.chunks # <<>>
  /\ req.body.json.valid /\ req.body.json.kind = "object"
  /\ req.body.json.modelType = "string"
  /\ req.body.json.model \in OPENROUTER_CURATED_MODELS

\* C6: on /chat/completions and /responses a request whose body does not name
\* a curated model (a missing or non-string model included) is never sent
\* upstream; once its body is read as JSON (POST, within the body limit) it is
\* answered 400, and otherwise 405 (not POST) or 413 (body over the limit).
C6_NonCuratedModelRejected ==
  (px.pc # "idle" /\ px.req.relativePath \in {"/chat/completions", "/responses"}
     /\ ~NamesCuratedModel(px.req)) =>
    /\ px.upstream = <<>> /\ px.pc \in {"body", "done"}
    /\ px.pc = "done" =>
         /\ px.status \in {400, 405, 413}
         /\ (px.req.method = "POST"
               /\ readRequestBody(px.req.body, REQUEST_BODY_LIMIT_BYTES).ok)
              => px.status = 400
         /\ px.status = 405 => px.req.method # "POST"
         /\ px.status = 413 => ~readRequestBody(px.req.body, REQUEST_BODY_LIMIT_BYTES).ok

\* A managed request to /responses without a model member is answered 400.
C6_Witness ==
  /\ px.pc = "done" /\ px.status = 400 /\ px.reason = "model" /\ px.upstream = <<>>
  /\ px.req.relativePath = "/responses" /\ px.req.method = "POST"
  /\ ~CarriesForeignCredential(px.req)
  /\ px.req.body.json = JsonValue("object")

\* The bytes of the first k chunks of a body.
RECURSIVE Running(_, _)
Running(chunks, k) ==
  IF k <= 0 \/ chunks = <<>> THEN 0 ELSE Head(chunks) + Running(Tail(chunks), k - 1)

BodySize(chunks) == Running(chunks, Len(chunks))

\* What C19 says of one handler h; sent tells whether it requested upstream.
WithinCap(h, sent) ==
  LET chunks == h.req.body.chunks
      cap == REQUEST_BODY_LIMIT_BYTES
  IN  /\ h.read.buffered <= cap
      /\ (h.status = 413 /\ h.reason = "body") =>
           /\ BodySize(chunks) > cap
           /\ Running(chunks, h.read.taken) > cap
           /\ Running(chunks, h.read.taken - 1) <= cap
           /\ h.read.buffered = Running(chunks, h.read.taken - 1)
           /\ ~h.parsed /\ ~sent
      /\ (h.status = 413 /\ BodySize(chunks) <= cap) => h.reason = "upstream"
      /\ (h.pc \in {"fetch", "done"} /\ h.read.taken > 0 /\ BodySize(chunks) <= cap)
           => h.read = [buffered |-> BodySize(chunks), taken |-> Len(chunks)]

\* C19: while a body is read the bytes buffered never exceed the cap: the
\* read aborts at the first chunk that takes the running total over the cap,
\* the request is answered 413 and its body is neither parsed nor forwarded;
\* a body of at most cap bytes is never answered 413 by the read (the
\* passthrough can still hand on a 413 of the upstream).
C19_BodyCap ==
  /\ WithinCap(px, px.upstream # <<>>)
  /\ WithinCap(rpc, rpc.fetches # <<>>)

\* A body of chunks 3, 2, 1 against the cap of 4: the read stops at the second
\* chunk with 3 bytes buffered and the request is answered 413.
C19_Witness ==
  /\ px.pc = "done" /\ px.status = 413 /\ px.reason = "body"
  /\ px.req.body.chunks = <<3, 2, 1>>
  /\ px.read = [buffered |-> 3, taken |-> 2]
  /\ ~px.parsed /\ px.upstream = <<>>


(***************************************************************************)
(* The managed JSON-RPC endpoint (handleManagedMcpRpc, runManagedMcpTool). *)
(* An argument is a JSON value: its type and, for strings and numbers, the *)
(* text String(value) gives.                                               *)
(***************************************************************************)
Undefined == [type |-> "undefined", text |-> <<>>]

Str(text) == [type |-> "string", text |-> text]

Num(text) == [type |-> "number", text |-> text]

Digits == <<"0","1","2","3","4","5","6","7","8","9">>

IsDigit(c) == \E i \in DOMAIN Digits : Digits[i] = c

DigitValue(c) == (CHOOSE i \in DOMAIN Digits : Digits[i] = c) - 1

UpperChar(c) ==
  IF \E i \in DOMAIN LowerChars : LowerChars[i] = c
  THEN UpperChars[CHOOSE i \in DOMAIN LowerChars : LowerChars[i] = c]
  ELSE c

ToUpperCase(s) == [i \in 1..Len(s) |-> UpperChar(s[i])]

\* The value of the longest prefix of digits; acc is -1 until a digit is read.
RECURSIVE LeadingDigits(_, _)
LeadingDigits(s, acc) ==
  IF s = <<>> \/ ~IsDigit(Head(s)) THEN acc
  ELSE LeadingDigits(Tail(s), (IF acc < 0 THEN 0 ELSE acc) * 10 + DigitValue(Head(s)))

\* Number.parseInt(text, 10): leading blanks, an optional sign, leading digits.
parseInt(text) ==
  LET s == TrimStart(text)
      negative == s # <<>> /\ Head(s) = "-"
      rest == IF s # <<>> /\ Head(s) \in {"-", "+"} THEN Tail(s) ELSE s
      n == LeadingDigits(rest, -1)
  IN  IF n < 0 THEN [finite |-> FALSE, n |-> 0]
      ELSE [finite |-> TRUE, n |-> IF negative THEN 0 - n ELSE n]

Valid(value) == [ok |-> TRUE, value |-> value]

Invalid == [ok |-> FALSE, value |-> <<>>]

\* A normalizeSymbol that coerces a value that is not a string with String().
normalizeSymbol_Coerce(symbol) ==
  LET normalized == ToUpperCase(Trim(symbol.text))
  IN  IF /\ Len(normalized) \in 1..20
         /\ \A i \in DOMAIN normalized :
              \/ IsDigit(normalized[i])
              \/ normalized[i] \in {".", "-"}
              \/ \E k \in DOMAIN UpperChars : UpperChars[k] = normalized[i]
      THEN Valid(normalized)
      ELSE Invalid

\* /^[A-Z0-9.\-]{1,20}$/ on the trimmed, upper-cased text
normalizeSymbol(symbol) ==
  LET normalized == ToUpperCase(Trim(symbol.text))
  IN  IF symbol.type # "string" THEN Invalid
      ELSE IF /\ Len(normalized) \in 1..20
              /\ \A i \in DOMAIN normalized :
                   \/ IsDigit(normalized[i])
                   \/ normalized[i] \in {".", "-"}
                   \/ \E k \in DOMAIN UpperChars : UpperChars[k] = normalized[i]
           THEN Valid(normalized)
      ELSE Invalid

normalizeFrequency(value) ==
  LET lower == ToLowerCase(Trim(value.text))
  IN  IF value.type # "string" THEN Invalid
      ELSE IF lower = <<"a","n","n","u","a","l">> THEN Valid(<<"A","n","n","u","a","l">>)
      ELSE IF lower = <<"q","u","a","r","t","e","r","l","y">> THEN Valid(<<"Q","u","a","r","t","e","r","l","y">>)
      ELSE Invalid

normalizeStatementType(value) ==
  LET upper == ToUpperCase(Trim(value.text))
  IN  IF value.type # "string" THEN Invalid
      ELSE IF upper \in {<<"I","S">>, <<"B","S">>, <<"C","F">>} THEN Valid(upper)
      ELSE Invalid

\* String(value) is the text of a string or number; other values give text
\* parseInt finds no digits in.
normalizeBoundedInt(value, min, max) ==
  LET parsed == parseInt(IF value.type \in {"string", "number"} THEN value.text ELSE <<>>)
  IN  IF ~parsed.finite THEN Invalid
      ELSE IF parsed.n < min \/ parsed.n > max THEN Invalid
      ELSE Valid(parsed.n)

\* /^\d{4}-\d{2}-\d{2}$/
IsoDateShape(t) ==
  /\ Len(t) = 10
  /\ t[5] = "-" /\ t[8] = "-"
  /\ \A i \in {1, 2, 3, 4, 6, 7, 9, 10} : IsDigit(t[i])

\* new Date(`${t}T00:00:00Z`).getTime() is NaN: V8 takes months 1..12 and days
\* 1..31 in every month (a day past the month's end rolls over).
DateIsNaN(t) ==
  LET month == DigitValue(t[6]) * 10 + DigitValue(t[7])
      day == DigitValue(t[9]) * 10 + DigitValue(t[10])
  IN  ~(month \in 1..12 /\ day \in 1..31)

normalizeIsoDate(value) ==
  LET trimmed == Trim(value.text)
  IN  IF value.type # "string" THEN Invalid
      ELSE IF ~IsoDateShape(trimmed) THEN Invalid
      ELSE IF DateIsNaN(trimmed) THEN Invalid
      ELSE Valid(trimmed)

\* startDate > endDate on two YYYY-MM-DD texts (code-unit order)
RECURSIVE TextGreater(_, _)
TextGreater(a, b) ==
  IF a = <<>> THEN FALSE
  ELSE IF b = <<>> THEN TRUE
  ELSE IF Head(a) # Head(b)
       THEN IF IsDigit(Head(a)) /\ IsDigit(Head(b))
            THEN DigitValue(Head(a)) > DigitValue(Head(b))
            ELSE IsDigit(Head(a))
  ELSE TextGreater(Tail(a), Tail(b))

\* new Date().getUTCFullYear()
UtcFullYear == 2026

NoArgs ==
  [ limit |-> Undefined, symbol |-> Undefined, frequency |-> Undefined,
    statement_type |-> Undefined, year |-> Undefined, years |-> Undefined,
    start_date |-> Undefined, end_date |-> Undefined, extra |-> Undefined ]

\* The properties the inputSchema of a tool declares (additionalProperties: false).
buildManagedMcpToolsSchema(name) ==
  CASE name = "jm_list_companies"     -> {"limit"}
    [] name = "jm_get_company"        -> {"symbol"}
    [] name = "jm_get_statement"      -> {"symbol", "frequency", "statement_type", "year"}
    [] name = "jm_get_all_statements" -> {"symbol", "frequency", "years"}
    [] name = "jm_get_price_data"     -> {"symbol", "start_date", "end_date"}
    [] OTHER                          -> {}

\* runManagedMcpTool up to its await: the endpoint to fetch, or the throw.
Throws(why) == [ok |-> FALSE, why |-> why, endpoint |-> <<>>]

Fetches(endpoint) == [ok |-> TRUE, why |-> "none", endpoint |-> endpoint]

runManagedMcpTool(name, args) ==
  LET symbol == normalizeSymbol(args.symbol)
      frequency == normalizeFrequency(args.frequency)
      statementType == normalizeStatementType(args.statement_type)
      limit == normalizeBoundedInt(args.limit, 1, 500)
      year == normalizeBoundedInt(args.year, 1990, UtcFullYear + 1)
      years == normalizeBoundedInt(args.years, 1, 10)
      startDate == normalizeIsoDate(args.start_date)
      endDate == normalizeIsoDate(args.end_date)
  IN  IF name = "jm_list_companies"
      THEN IF args.limit.type # "undefined" /\ ~limit.ok THEN Throws("validation")
           ELSE Fetches(<<"company">>)
      ELSE IF name = "jm_get_company"
      THEN IF ~symbol.ok THEN Throws("validation")
           ELSE Fetches(<<"company", symbol.value>>)
      ELSE IF name = "jm_get_statement"
      THEN IF ~symbol.ok \/ ~frequency.ok \/ ~statementType.ok THEN Throws("validation")
           ELSE IF args.year.type # "undefined" /\ ~year.ok THEN Throws("validation")
           ELSE IF args.year.type # "undefined"
                THEN Fetches(<<"statement", symbol.value, frequency.value,
                               statementType.value, year.value>>)
                ELSE Fetches(<<"statement", symbol.value, frequency.value,
                               statementType.value>>)
      ELSE IF name = "jm_get_all_statements"
      THEN IF ~symbol.ok \/ ~frequency.ok THEN Throws("validation")
           ELSE IF args.years.type # "undefined" /\ ~years.ok THEN Throws("validation")
           ELSE Fetches(<<"all_statements", symbol.value, frequency.value,
                          IF args.years.type # "undefined" THEN years.value ELSE 5>>)
      ELSE IF name = "jm_get_price_data"
      THEN IF ~symbol.ok \/ ~startDate.ok \/ ~endDate.ok THEN Throws("validation")
           ELSE IF TextGreater(startDate.value, endDate.value) THEN Throws("validation")
           ELSE Fetches(<<"price_data", symbol.value, startDate.value, endDate.value>>)
      ELSE Throws("unknown-tool")

\* A JSON-RPC payload as JSON.parse gives it.
RpcInvalid ==
  [ valid |-> FALSE, kind |-> "none", id |-> "undefined", methodType |-> "undefined",
    method |-> "", hasParams |-> FALSE, nameType |-> "undefined", name |-> "",
    argsKind |-> "undefined", args |-> NoArgs ]

RpcNotObject == [RpcInvalid EXCEPT !.valid = TRUE, !.kind = "null"]

RpcMessage(id, method) ==
  [RpcInvalid EXCEPT !.valid = TRUE, !.kind = "object", !.id = id,
                     !.methodType = "string", !.method = method]

RpcCall(id, nameType, name, argsKind, args) ==
  [RpcMessage(id, "tools/call") EXCEPT !.hasParams = TRUE, !.nameType = nameType,
                                       !.name = name, !.argsKind = argsKind, !.args = args]

IdleRpc ==
  [ pc |-> "idle",
    req |-> [httpMethod |-> "", body |-> [chunks |-> <<>>, json |-> RpcInvalid]],
    payload |-> RpcInvalid,
    status |-> 0, code |-> 0, respId |-> "none", reason |-> "none",
    endpoint |-> <<>>, upstream |-> "none",
    fetches |-> <<>>, hasBody |-> FALSE,
    read |-> [buffered |-> 0, taken |-> 0], parsed |-> FALSE,
    timer |-> "none" ]

\* sendJson(res, status, body) with no JSON-RPC envelope
SendPlain(r, status, reason) ==
  [r EXCEPT !.pc = "done", !.status = status, !.reason = reason, !.hasBody = TRUE]

\* sendJson(res, status, buildJsonRpcError(id, code, message)): id ?? null
buildJsonRpcError(r, id, status, code, reason) ==
  [r EXCEPT !.pc = "done", !.status = status, !.code = code, !.reason = reason,
            !.respId = IF id = "undefined" THEN "null" ELSE id, !.hasBody = TRUE]

\* sendJson(res, 200, buildJsonRpcSuccess(id, result))
buildJsonRpcSuccess(r, id, reason) ==
  [r EXCEPT !.pc = "done", !.status = 200, !.reason = reason, !.respId = id,
            !.hasBody = TRUE]

\* A fetchJamaicaJson that sends its GET a second time.
fetchJamaicaJson_Twice(r, endpointPath) ==
  [r EXCEPT !.pc = "fetch", !.endpoint = endpointPath, !.timer = withTimeout,
            !.fetches = Append(Append(@, endpointPath), endpointPath)]

\* fetchJamaicaJson(endpointPath) up to its await: one GET of the endpoint.
fetchJamaicaJson(r, endpointPath) ==
  [r EXCEPT !.pc = "fetch", !.endpoint = endpointPath, !.timer = withTimeout,
            !.fetches = Append(@, endpointPath)]

\* The argument texts the requests are built from.
Symbol20 == <<"a","b","c","d","e","f","g","h","i","j","0","1","2","3","4","5","6","7","8","9">>

SymbolInputs ==
  { Undefined, Str(<<"g","k">>), Str(<<" ","G","K"," ">>), Str(<<"G","$">>), Str(<<>>), Num(<<"7">>),
    Str(<<"a",".","b","-","1">>), Str(<<" ">>), Str(<<"g"," ","k">>),
    Str(<<" ">> \o Symbol20), Str(Symbol20 \o <<"x">>) }

FrequencyInputs == { Undefined, Str(<<"a","n","n","u","a","l">>), Str(<<" ","Q","u","a","r","t","e","r","l","y"," ">>), Str(<<"m","o","n","t","h","l","y">>) }

StatementTypeInputs == { Str(<<"i","s">>), Str(<<"X","X">>) }

IntInputs == { Undefined, Num(<<"5">>), Num(<<"0">>), Str(<<"1","2","a","b","c">>), Str(<<"a","b","c">>), Num(<<"3",".","9">>),
               Num(<<"2","0","2","4">>), Num(<<"1","9","8","9">>) }

DateInputs == { Undefined, Str(<<"2","0","2","4","-","0","1","-","3","1">>), Str(<<"2","0","2","3","-","1","2","-","3","1">>), Str(<<"2","0","2","4","-","0","2","-","3","0">>), Str(<<"2","0","2","4","-","1","3","-","0","1">>), Str(<<"2","0","2","4","-","0","1","-","3","2">>), Str(<<"2","4","-","1","-","1">>) }

CallArgs ==
  { <<"jm_list_companies", [NoArgs EXCEPT !.limit = v]>> : v \in IntInputs }
  \cup { <<"jm_get_company", [NoArgs EXCEPT !.symbol = s]>> : s \in SymbolInputs }
  \cup { <<"jm_get_statement",
           [NoArgs EXCEPT !.symbol = s, !.frequency = f, !.statement_type = t, !.year = y]>> :
           s \in {Str(<<"g","k">>), Str(<<"G","$">>)}, f \in FrequencyInputs,
           t \in StatementTypeInputs, y \in {Undefined, Num(<<"2","0","2","4">>), Num(<<"1","9","8","9">>)} }
  \cup { <<"jm_get_all_statements",
           [NoArgs EXCEPT !.symbol = Str(<<"g","k">>), !.frequency = f, !.years = y]>> :
           f \in {Str(<<"a","n","n","u","a","l">>), Str(<<"m","o","n","t","h","l","y">>)}, y \in {Undefined, Num(<<"5">>), Num(<<"0">>)} }
  \cup { <<"jm_get_price_data",
           [NoArgs EXCEPT !.symbol = Str(<<"g","k">>), !.start_date = a, !.end_date = b]>> :
           a \in DateInputs, b \in DateInputs \ {Undefined} }
  \cup { <<"jm_unknown", NoArgs>> }
  \cup { <<"jm_list_companies", [NoArgs EXCEPT !.extra = Str(<<"x">>)]>>,
         <<"jm_list_companies", [NoArgs EXCEPT !.symbol = Str(<<"g","k">>)]>>,
         <<"jm_get_company",
           [NoArgs EXCEPT !.symbol = Str(<<"g","k">>), !.limit = Num(<<"5">>)]>> }

RpcTexts ==
  { RpcInvalid, RpcNotObject,
    [RpcMessage("1", "") EXCEPT !.methodType = "number"],
    RpcCall("1", "undefined", "", "undefined", NoArgs),
    RpcCall("1", "number", "", "object", NoArgs),
    RpcCall("1", "string", "", "object", NoArgs),
    RpcCall("1", "string", "jm_get_company", "undefined", NoArgs),
    RpcCall("1", "string", "jm_list_companies", "undefined", NoArgs),
    [RpcMessage("1", "tools/call") EXCEPT !.hasParams = FALSE] }
  \cup { RpcMessage(id, m) :
           id \in {"undefined", "null", "1"},
           m \in {"initialize", "notifications/initialized", "tools/list", "ping"} }
  \cup { RpcCall(id, "string", c[1], "object", c[2]) : id \in {"undefined", "1"}, c \in CallArgs }

ManagedRequests ==
  { [httpMethod |-> m, body |-> b] :
      m \in {"POST", "GET"},
      b \in { [chunks |-> <<>>, json |-> RpcInvalid] }
            \cup { [chunks |-> c, json |-> j] : c \in {<<2, 2>>, <<3, 2, 1>>}, j \in RpcTexts } }

\* handleManagedMcpRpc up to its first await.
handleManagedMcpRpc(req) ==
  IF req.httpMethod # "POST"
  THEN SendPlain([rpc EXCEPT !.req = req], 405, "method")
  ELSE [rpc EXCEPT !.req = req, !.pc = "body"]

ManagedRequest(req) ==
  /\ rpc.pc = "idle"
  /\ rpc' = handleManagedMcpRpc(req)
  /\ UNCHANGED <<gwVars, edgeVars, proxyVars, clientVars>>

\* readRequestBody settles: 413, or the payload is parsed and dispatched.
ManagedBodyRead ==
  /\ rpc.pc = "body"
  /\ LET bodyBuffer == readRequestBody(rpc.req.body, REQUEST_BODY_LIMIT_BYTES)
         parsed == IF bodyBuffer.length = 0
                   THEN [ok |-> TRUE, value |-> [RpcInvalid EXCEPT !.valid = TRUE, !.kind = "object"]]
                   ELSE [ok |-> parseJsonBody(bodyBuffer.length, rpc.req.body.json).ok,
                         value |-> rpc.req.body.json]
         payload == parsed.value
         id == IF payload.kind = "object" THEN payload.id ELSE "undefined"
         method == IF payload.kind = "object" /\ payload.methodType = "string"
                   THEN payload.method ELSE ""
         name == IF payload.hasParams /\ payload.nameType = "string" THEN payload.name ELSE ""
         args == IF payload.hasParams /\ payload.argsKind = "object" THEN payload.args ELSE NoArgs
         tool == runManagedMcpTool(name, args)
         unread == [rpc EXCEPT !.read = [buffered |-> bodyBuffer.buffered,
                                         taken |-> bodyBuffer.taken]]
         r == [unread EXCEPT !.payload = payload, !.parsed = TRUE]
     IN  rpc' =
           IF ~bodyBuffer.ok THEN SendPlain(unread, 413, "body")
           ELSE IF ~parsed.ok
                THEN buildJsonRpcError([unread EXCEPT !.parsed = TRUE],
                                       "null", 400, -32700, "parse")
           ELSE IF method = "initialize" THEN buildJsonRpcSuccess(r, id, "initialize")
           ELSE IF method = "notifications/initialized"
                THEN IF id \in {"undefined", "null"}
                     THEN [r EXCEPT !.pc = "done", !.status = 204, !.reason = "initialized"]
                     ELSE buildJsonRpcSuccess(r, id, "initialized")
           ELSE IF method = "tools/list" THEN buildJsonRpcSuccess(r, id, "tools/list")
           ELSE IF method = "tools/call"
                THEN IF name = "" THEN buildJsonRpcError(r, id, 400, -32602, "params")
                     ELSE IF ~tool.ok THEN buildJsonRpcError(r, id, 400, -32000, tool.why)
                     ELSE fetchJamaicaJson(r, tool.endpoint)
           ELSE buildJsonRpcError(r, id, 404, -32601, "method")
  /\ UNCHANGED <<gwVars, edgeVars, proxyVars, clientVars>>

\* The timer fires while fetch or response.text() is awaited: the signal is
\* aborted.
ManagedTimerFires ==
  /\ rpc.pc = "fetch" /\ rpc.timer = "pending"
  /\ rpc' = [rpc EXCEPT !.timer = "fired"]
  /\ UNCHANGED <<gwVars, edgeVars, proxyVars, clientVars>>

\* fetchJamaicaJson settles: a 2xx JSON document, a non-2xx status, a 2xx body
\* that is not JSON, or a rejected fetch (network error, timeout abort); its
\* finally clears the timer.  After the abort the call can only reject.
ManagedUpstreamSettles(outcome) ==
  /\ rpc.pc = "fetch"
  /\ rpc.timer = "fired" => outcome = "rejected"
  /\ LET id == rpc.payload.id
         r == [rpc EXCEPT !.upstream = outcome, !.timer = timeoutClear(@)]
     IN  rpc' = IF outcome = "json" THEN buildJsonRpcSuccess(r, id, "tools/call")
                ELSE buildJsonRpcError(r, id, 400, -32000, "upstream")
  /\ UNCHANGED <<gwVars, edgeVars, proxyVars, clientVars>>

\* The response is sent; the endpoint is ready for the next request.
ManagedDone ==
  /\ rpc.pc = "done"
  /\ rpc' = IdleRpc
  /\ UNCHANGED <<gwVars, edgeVars, proxyVars, clientVars>>

ManagedInit == rpc = IdleRpc

ManagedNext ==
  \/ \E req \in ManagedRequests : ManagedRequest(req)
  \/ ManagedBodyRead
  \/ \E outcome \in {"json", "status-404", "status-500", "not-json", "rejected"} :
       ManagedUpstreamSettles(outcome)
  \/ ManagedTimerFires
  \/ ManagedDone

(***************************************************************************)
(* Claims about the managed endpoint.                                      *)
(***************************************************************************)
\* The request got as far as JSON-RPC: a POST whose body is within the limit.
ReachedJsonRpc == rpc.req.httpMethod = "POST" /\ rpc.status \notin {405, 413}

\* The JSON-RPC method of a request body (an empty body is read as {}).
MethodOf(body) ==
  IF body.chunks # <<>> /\ body.json.kind = "object" /\ body.json.methodType = "string"
  THEN body.json.method ELSE ""

SentObject ==
  /\ ReachedJsonRpc /\ rpc.parsed
  /\ rpc.req.body.chunks # <<>> /\ rpc.req.body.json.valid
  /\ rpc.req.body.json.kind = "object"

\* C11: every request to the managed endpoint whose payload carries no id is
\* a notification: it is answered 204 without a body, whatever its method.
C11_NoIdAnswered204 ==
  (rpc.pc = "done" /\ SentObject /\ rpc.req.body.json.id = "undefined")
    => (rpc.status = 204 /\ ~rpc.hasBody)

\* The request is a tools/call that names a tool and carries an arguments
\* object.
IsToolsCall ==
  /\ SentObject /\ MethodOf(rpc.req.body) = "tools/call"
  /\ rpc.req.body.json.hasParams /\ rpc.req.body.json.nameType = "string"
  /\ rpc.req.body.json.argsKind = "object"

SymbolTools == {"jm_get_company", "jm_get_statement", "jm_get_all_statements", "jm_get_price_data"}

WellFormedSymbols == { Str(<<"g","k">>), Str(<<" ","G","K"," ">>) }

MalformedSymbols == { Undefined, Str(<<"G","$">>), Str(<<>>), Num(<<"7">>) }

MalformedDates ==
  { Undefined, Str(<<"2","4","-","1","-","1">>),
    Str(<<"2","0","2","4","-","1","3","-","0","1">>),
    Str(<<"2","0","2","4","-","0","1","-","3","2">>) }

January31 == Str(<<"2","0","2","4","-","0","1","-","3","1">>)

December31 == Str(<<"2","0","2","3","-","1","2","-","3","1">>)

\* The arguments have a symbol outside the pattern, a value outside an
\* enumeration or a range, a date that is not a YYYY-MM-DD calendar date, or a
\* start_date after the end_date.
ArgumentsAtFault ==
  LET name == rpc.req.body.json.name
      a == rpc.req.body.json.args
  IN  \/ name \in SymbolTools /\ a.symbol \in MalformedSymbols
      \/ /\ name \in {"jm_get_statement", "jm_get_all_statements"}
         /\ a.frequency \in {Undefined, Str(<<"m","o","n","t","h","l","y">>)}
      \/ name = "jm_get_statement" /\ a.statement_type = Str(<<"X","X">>)
      \/ /\ name = "jm_list_companies"
         /\ a.limit \in {Num(<<"0">>), Num(<<"2","0","2","4">>), Num(<<"1","9","8","9">>), Str(<<"a","b","c">>)}
      \/ name = "jm_get_statement" /\ a.year \in {Num(<<"1","9","8","9">>)}
      \/ name = "jm_get_all_statements" /\ a.years = Num(<<"0">>)
      \/ /\ name = "jm_get_price_data"
         /\ (a.start_date \in MalformedDates \/ a.end_date \in MalformedDates)
      \/ /\ name = "jm_get_price_data"
         /\ a.start_date = January31 /\ a.end_date = December31

\* The arguments are well formed for the tool they are given to.
ArgumentsInOrder ==
  LET name == rpc.req.body.json.name
      a == rpc.req.body.json.args
      annual == Str(<<"a","n","n","u","a","l">>)
      quarterly == Str(<<" ","Q","u","a","r","t","e","r","l","y"," ">>)
  IN  \/ name = "jm_list_companies" /\ a.limit \in {Undefined, Num(<<"5">>)}
      \/ name = "jm_get_company" /\ a.symbol \in WellFormedSymbols
      \/ /\ name = "jm_get_statement" /\ a.symbol \in WellFormedSymbols
         /\ a.frequency \in {annual, quarterly}
         /\ a.statement_type = Str(<<"i","s">>)
         /\ a.year \in {Undefined, Num(<<"2","0","2","4">>)}
      \/ /\ name = "jm_get_all_statements" /\ a.symbol \in WellFormedSymbols
         /\ a.frequency \in {annual, quarterly}
         /\ a.years \in {Undefined, Num(<<"5">>)}
      \/ /\ name = "jm_get_price_data" /\ a.symbol \in WellFormedSymbols
         /\ <<a.start_date, a.end_date>> \in
              { <<December31, December31>>, <<December31, January31>>,
                <<January31, January31>> }

\* C12: a tools/call whose arguments fail validation (symbol, enumeration,
\* range, date format, start_date after end_date) is answered without any
\* upstream GET; one whose arguments pass is answered after exactly one
\* upstream GET.
C12_ValidationBeforeFetch ==
  /\ Len(rpc.fetches) <= 1
  /\ rpc.pc = "fetch" => Len(rpc.fetches) = 1
  /\ rpc.reason = "validation" => rpc.fetches = <<>>
  /\ (rpc.pc \in {"fetch", "done"} /\ IsToolsCall /\ ArgumentsAtFault)
       => /\ rpc.pc = "done" /\ rpc.reason = "validation" /\ rpc.code = -32000
          /\ rpc.fetches = <<>> /\ rpc.upstream = "none"
  /\ (rpc.pc \in {"fetch", "done"} /\ IsToolsCall /\ ArgumentsInOrder)
       => /\ Len(rpc.fetches) = 1 /\ rpc.fetches[1] = rpc.endpoint
          /\ rpc.pc = "done" => rpc.upstream # "none"

\* jm_get_price_data from 2024-01-31 to 2023-12-31 is answered -32000 and
\* nothing was fetched.
C12_Witness ==
  /\ rpc.pc = "done" /\ IsToolsCall /\ rpc.req.body.json.name = "jm_get_price_data"
  /\ rpc.req.body.json.args.symbol \in WellFormedSymbols
  /\ rpc.req.body.json.args.start_date = January31
  /\ rpc.req.body.json.args.end_date = December31
  /\ rpc.code = -32000 /\ rpc.fetches = <<>>

\* C20: a tools/call needs both params.name and params.arguments: without
\* either one it is answered -32602 and nothing is requested upstream.
C20_CallNeedsNameAndArguments ==
  ( /\ rpc.pc \in {"fetch", "done"} /\ SentObject
    /\ MethodOf(rpc.req.body) = "tools/call"
    /\ \/ ~rpc.req.body.json.hasParams
       \/ rpc.req.body.json.nameType # "string" \/ rpc.req.body.json.name = ""
       \/ rpc.req.body.json.argsKind = "undefined" )
    => /\ rpc.fetches = <<>>
       /\ rpc.pc = "done" /\ rpc.code = -32602


\* The fields an arguments object carries.
FieldsOf(a) == { f \in DOMAIN a : a[f] # Undefined }

\* C21: a tools/call of one of the five tools whose arguments carry a field
\* the tool does not declare is answered with a validation error and nothing
\* is fetched upstream.
C21_UndeclaredFieldRejected ==
  ( /\ rpc.pc \in {"fetch", "done"} /\ IsToolsCall
    /\ buildManagedMcpToolsSchema(rpc.req.body.json.name) # {}
    /\ ~(FieldsOf(rpc.req.body.json.args) \subseteq
           buildManagedMcpToolsSchema(rpc.req.body.json.name)) )
    => /\ rpc.fetches = <<>>
       /\ rpc.pc = "done" /\ rpc.code = -32000

\* The text is 1 to 20 characters, each a capital letter, a digit, a dot or a dash.
IsSymbol(text) ==
  /\ Len(text) >= 1 /\ Len(text) <= 20
  /\ \A i \in DOMAIN text :
       text[i] \in {"A","B","C","D","E","F","G","H","I","J","K","L","M","N","O","P","Q",
                    "R","S","T","U","V","W","X","Y","Z","0","1","2","3","4","5","6","7",
                    "8","9",".","-"}

\* C22: every symbol normalizeSymbol accepts comes out trimmed and
\* upper-cased, matches ^[A-Z0-9.-]{1,20}$ and is a fixed point of
\* normalizeSymbol; every other value (a string that fails the pattern once
\* trimmed and upper-cased, the empty string, a value that is not a string)
\* is a validation error, never coerced.
C22_NormalizeSymbol ==
  LET j == rpc.req.body.json
      s == j.args.symbol
      upper == ToUpperCase(Trim(s.text))
      accepted == s.type = "string" /\ IsSymbol(upper)
  IN  /\ \A v \in SymbolInputs :
           LET r == normalizeSymbol(v)
           IN  r.ok => /\ v.type = "string" /\ r.value = ToUpperCase(Trim(v.text))
                       /\ IsSymbol(r.value)
                       /\ normalizeSymbol(Str(r.value)) = r
      /\ normalizeSymbol(Str(<<" ","G","K"," ">>)) = Valid(<<"G","K">>)
      /\ normalizeSymbol(Str(<<"a",".","b","-","1">>)) = Valid(<<"A",".","B","-","1">>)
      /\ (rpc.pc \in {"fetch", "done"} /\ IsToolsCall /\ j.name = "jm_get_company") =>
           /\ accepted => rpc.fetches = << <<"company", upper>> >>
           /\ ~accepted => /\ rpc.pc = "done" /\ rpc.fetches = <<>>
                            /\ rpc.code = -32000 /\ rpc.reason = "validation"

\* A symbol of twenty characters behind a blank has been accepted and fetched
\* in capitals.
C22_Witness ==
  /\ rpc.pc = "done" /\ IsToolsCall /\ rpc.req.body.json.name = "jm_get_company"
  /\ rpc.req.body.json.args.symbol = Str(<<" ">> \o Symbol20)
  /\ rpc.fetches = << <<"company", ToUpperCase(Symbol20)>> >>
  /\ rpc.status = 200

(***************************************************************************)
(* The server as a whole: the edge stages followed by the handler.         *)
(***************************************************************************)
\* Requests as the callback and as the handler see them: a passthrough call
\* and a managed tools/call, each with and without a foreign Origin header.
ServerRequests ==
  LET edge(p, o) ==
        [pathname |-> p, origin |-> o, host |-> Header(<<"a",".","i","o">>),
         forwarded |-> Absent, remoteAddress |-> Header(<<"1">>)]
      foreign == Header(SchemeHttps \o <<"e",".","i","o">>)
      chat == [relativePath |-> "/chat/completions", method |-> "POST",
               authorization |-> Absent, xApiKey |-> NoKey,
               body |-> [chunks |-> <<2, 2>>,
                         json |-> JsonObject("string", "openai/gpt-5.2-codex")]]
      call == [httpMethod |-> "POST",
               body |-> [chunks |-> <<2, 2>>,
                         json |-> RpcCall("1", "string", "jm_list_companies", "object", NoArgs)]]
  IN  { [edge |-> edge(PathOpenRouter \o <<"/","c","h","a","t","/","c","o","m","p","l","e","t","i","o","n","s">>, o),
         proxy |-> chat, managed |-> call] : o \in {Absent, foreign} }
      \cup { [edge |-> edge(PathManagedMcp, o), proxy |-> chat, managed |-> call] :
               o \in {Absent, foreign} }

\* The callback with the handler it awaits. A handler runs one request at a
\* time here; a request the edge answers itself can arrive at any moment.
ServerRequest(q) ==
  /\ createServer(q.edge)
  /\ last'.stage = "handleOpenRouterProxy" => px.pc = "idle"
  /\ last'.stage = "handleManagedMcpRpc" => rpc.pc = "idle"
  /\ px' = IF last'.stage = "handleOpenRouterProxy" THEN handleOpenRouterProxy(q.proxy) ELSE px
  /\ rpc' = IF last'.stage = "handleManagedMcpRpc" THEN handleManagedMcpRpc(q.managed) ELSE rpc
  /\ UNCHANGED <<gwVars, clientVars>>

ServerNext ==
  \/ \E q \in ServerRequests : ServerRequest(q)
  \/ ProxyBodyRead
  \/ ProxyUpstreamResponds(200)
  \/ ProxyUpstreamFails
  \/ ProxyTimerFires
  \/ ProxyDone
  \/ ManagedBodyRead
  \/ \E outcome \in {"json", "status-500", "rejected"} : ManagedUpstreamSettles(outcome)
  \/ ManagedTimerFires
  \/ ManagedDone

\* No entry of the limiter's Map is new or has moved in this step.
LimiterUntouched ==
  /\ limiterCalls' = limiterCalls
  /\ \A ip \in DOMAIN RATE_LIMIT_STATE' :
       ip \in DOMAIN RATE_LIMIT_STATE /\ RATE_LIMIT_STATE'[ip] = RATE_LIMIT_STATE[ip]

\* C18: the edge runs the origin check, then the rate limiter, then the
\* handler that reads the body: a request answered 403 by the origin check
\* neither creates nor increments a rate-limit entry, a request answered 429
\* starts no handler and has none of its body read, and a handler starts only
\* with a request the limiter has counted and admitted.
C18_PipelineOrder ==
  [][ /\ last'.status = 403 => LimiterUntouched
      /\ ( /\ limiterCalls' # limiterCalls
           /\ limiterCalls'[Len(limiterCalls')].limited )
          => (last'.status = 429 /\ last'.stage = "rate" /\ px' = px /\ rpc' = rpc)
      /\ (px.pc = "idle" /\ px'.pc # "idle")
          => /\ last'.stage = "handleOpenRouterProxy"
             /\ Len(limiterCalls') = Len(limiterCalls) + 1
             /\ ~limiterCalls'[Len(limiterCalls')].limited
             /\ last'.ip \in DOMAIN RATE_LIMIT_STATE'
             /\ px'.read.taken = 0
      /\ (rpc.pc = "idle" /\ rpc'.pc # "idle")
          => /\ last'.stage = "handleManagedMcpRpc"
             /\ Len(limiterCalls') = Len(limiterCalls) + 1
             /\ ~limiterCalls'[Len(limiterCalls')].limited
             /\ last'.ip \in DOMAIN RATE_LIMIT_STATE'
             /\ rpc'.read.taken = 0
    ]_vars

\* A request from a foreign origin has been answered 403 after an admitted and
\* a rejected call of the same address: the limiter still holds that count and
\* no handler runs.
C18_Witness ==
  /\ last.status = 403 /\ last.stage = "origin"
  /\ Len(limiterCalls) = 2 /\ limiterCalls[2].limited /\ limiterCalls[2].status = 429
  /\ last.ip \in DOMAIN RATE_LIMIT_STATE /\ RATE_LIMIT_STATE[last.ip].count = 2
  /\ px = IdleProxy /\ rpc = IdleRpc

\* The limiter calls of the k-th call's address that fall in its window, and
\* those of them that were admitted.
InWindowOf(k) ==
  { i \in DOMAIN limiterCalls : /\ limiterCalls[i].ip = limiterCalls[k].ip
                                /\ WindowStartedAt(i) = WindowStartedAt(k) }

AdmittedInWindowOf(k) == { i \in InWindowOf(k) : ~limiterCalls[i].limited }

\* A step of a handler that was suspended at an await.
HandlerResumes ==
  \/ ProxyBodyRead \/ ProxyUpstreamResponds(200) \/ ProxyUpstreamFails \/ ProxyTimerFires
  \/ ProxyDone
  \/ ManagedBodyRead \/ ManagedTimerFires \/ ManagedDone
  \/ \E outcome \in {"json", "status-500", "rejected"} : ManagedUpstreamSettles(outcome)

\* C33: whatever handlers are suspended while requests arrive, of the N API
\* requests of one address in one window exactly min(N, max) are admitted, the
\* Map holds N as the count of the window, and no step of a suspended handler
\* touches the Map: a request's read, check and update are one step.
C33_LimiterAtomic ==
  /\ [](\A k \in DOMAIN limiterCalls :
          /\ Cardinality(AdmittedInWindowOf(k)) =
               Min({Cardinality(InWindowOf(k)), RATE_LIMIT_MAX_REQUESTS})
          /\ IsLatestOfIp(k) =>
               /\ limiterCalls[k].ip \in DOMAIN RATE_LIMIT_STATE
               /\ RATE_LIMIT_STATE[limiterCalls[k].ip].count = Cardinality(InWindowOf(k)))
  /\ [][HandlerResumes => LimiterUntouched]_vars

\* C33 witness: with both handlers suspended at an await, a third request of
\* the same address in the same window has been rejected.
C33_Witness ==
  /\ px.pc # "idle" /\ rpc.pc # "idle"
  /\ Len(limiterCalls) = 3
  /\ ~limiterCalls[1].limited /\ ~limiterCalls[2].limited /\ limiterCalls[3].limited
  /\ InWindowOf(3) = {1, 2, 3}

\* C34: a timer is armed only while its call is awaited.  Once the
\* passthrough has left its fetch, or the managed endpoint its
\* fetchJamaicaJson, by an answer, an upstream error, a throw or the timeout,
\* the timer of that call is no longer pending: it was cleared, or it had
\* fired; and a step that leaves the call clears a timer that was pending.
C34_TimerCleared ==
  /\ [](/\ px.timer = "pending" => px.pc = "fetch"
        /\ rpc.timer = "pending" => rpc.pc = "fetch"
        /\ (px.pc = "done" /\ px.upstream # <<>>) => px.timer \in {"cleared", "fired"}
        /\ (rpc.pc = "done" /\ rpc.fetches # <<>>) => rpc.timer \in {"cleared", "fired"})
  /\ [][/\ (px.pc = "fetch" /\ px'.pc # "fetch" /\ px.timer = "pending")
             => px'.timer = "cleared"
        /\ (rpc.pc = "fetch" /\ rpc'.pc # "fetch" /\ rpc.timer = "pending")
             => rpc'.timer = "cleared"]_vars

\* C34 witness: the passthrough has left its fetch by a rejection with the
\* timer cleared, and the managed endpoint its call after the timer had fired.
C34_Witness ==
  /\ px.pc = "done" /\ px.status = 502 /\ px.reason = "fetch" /\ px.timer = "cleared"
  /\ rpc.pc = "done" /\ rpc.upstream = "rejected" /\ rpc.timer = "fired"

(***************************************************************************)
(* The MCP server registry (mcp-config.ts): the custom servers and the     *)
(* enabled flags of the managed servers, persisted under two keys of a     *)
(* settings store.  A stored value is JSON of any shape: an item of a      *)
(* stored list is an object with JSON fields or a scalar; a server         *)
(* configuration is a record with a text id, name and url (token <<>> and  *)
(* managedId "" are absent fields).                                        *)
(***************************************************************************)
Bool(b) ==
  [type |-> "boolean",
   text |-> IF b THEN <<"t","r","u","e">> ELSE <<"f","a","l","s","e">>]

\* "mcp-managed-jamaica-market", "Jamaica Market Data", "/api/mcp/jamaica-market"
MANAGED_MCP_SERVER_DEFINITIONS ==
  << [managedId |-> "jamaica-market",
      id |-> <<"m","c","p","-","m","a","n","a","g","e","d","-","j","a","m","a",
               "i","c","a","-","m","a","r","k","e","t">>,
      name |-> <<"J","a","m","a","i","c","a"," ","M","a","r","k","e","t"," ",
                 "D","a","t","a">>,
      urlPath |-> <<"/","a","p","i","/","m","c","p","/","j","a","m","a","i",
                    "c","a","-","m","a","r","k","e","t">>] >>

\* normalizeOptionalString of mcp-config.ts, on a value of any type.
normalizeOptionalConfigString(value) ==
  IF value.type # "string" THEN <<>> ELSE Trim(value.text)

\* null is <<>>: a name is never the empty text.
normalizeName(value) ==
  IF value.type # "string" THEN <<>> ELSE Trim(value.text)

\* A number is zero when its text has no digit other than 0.
normalizeEnabled(value) ==
  CASE value.type = "boolean" -> value.text = <<"t","r","u","e">>
    [] value.type = "number"  ->
         \E i \in DOMAIN value.text : IsDigit(value.text[i]) /\ value.text[i] # "0"
    [] value.type = "string"  ->
         LET normalized == ToLowerCase(Trim(value.text))
         IN  ~ (normalized \in { <<"0">>, <<"f","a","l","s","e">>, <<"o","f","f">> })
    [] OTHER -> TRUE

RECURSIVE StripTrailingSlashes(_)
StripTrailingSlashes(s) ==
  IF s # <<>> /\ s[Len(s)] = "/"
  THEN StripTrailingSlashes(SubSeq(s, 1, Len(s) - 1))
  ELSE s

RECURSIVE StripLeadingSlashes(_)
StripLeadingSlashes(s) ==
  IF s # <<>> /\ Head(s) \in {"/", "\\"} THEN StripLeadingSlashes(Tail(s)) ELSE s

\* new URL(text).protocol, lower-cased; <<>> when the text has no scheme.
Protocol(text) ==
  IF \E i \in DOMAIN text : text[i] = ":"
  THEN LET colon == Min({ i \in DOMAIN text : text[i] = ":" })
       IN  ToLowerCase(SubSeq(text, 1, colon))
  ELSE <<>>

IsLetter(c) == \E i \in DOMAIN LowerChars : LowerChars[i] = LowerChar(c)

\* Whether new URL(text) parses: a scheme that starts with a letter, and for
\* http and https a host without blanks.
UrlParses(text) ==
  LET protocol == Protocol(text)
      rest == StripLeadingSlashes(SubSeq(text, Len(protocol) + 1, Len(text)))
  IN  /\ Len(protocol) > 1
      /\ IsLetter(protocol[1])
      /\ protocol \in { <<"h","t","t","p",":">>, <<"h","t","t","p","s",":">> }
           => rest # <<>> /\ \A i \in DOMAIN rest : rest[i] # " "

\* The validated url, or <<>> for the thrown error.
validateMcpServerUrl(url) ==
  LET trimmed == Trim(url)
  IN  IF trimmed = <<>> THEN <<>>
      ELSE IF ~ UrlParses(trimmed) THEN <<>>
      ELSE IF ~ (Protocol(trimmed) \in
                   { <<"h","t","t","p",":">>, <<"h","t","t","p","s",":">> })
      THEN <<>>
      ELSE StripTrailingSlashes(trimmed)

IsSlugChar(c) == IsDigit(c) \/ \E i \in DOMAIN LowerChars : LowerChars[i] = c

\* replace(/[^a-z0-9]+/g, "-"): inRun is whether the previous character was
\* already replaced.
RECURSIVE Dashed(_, _)
Dashed(s, inRun) ==
  IF s = <<>> THEN <<>>
  ELSE IF IsSlugChar(Head(s)) THEN <<Head(s)>> \o Dashed(Tail(s), FALSE)
  ELSE IF inRun THEN Dashed(Tail(s), TRUE)
  ELSE <<"-">> \o Dashed(Tail(s), TRUE)

RECURSIVE StripDashes(_)
StripDashes(s) ==
  IF s # <<>> /\ Head(s) = "-" THEN StripDashes(Tail(s))
  ELSE IF s # <<>> /\ s[Len(s)] = "-" THEN StripDashes(SubSeq(s, 1, Len(s) - 1))
  ELSE s

\* crypto.randomUUID() is not modelled: a validated url starts with http, so
\* the slug of name and url is never empty and the call is never made.
normalizeServerId(value, fallbackName, fallbackUrl) ==
  IF value.type = "string" /\ Trim(value.text) # <<>> THEN Trim(value.text)
  ELSE LET slug == StripDashes(Dashed(ToLowerCase(fallbackName \o <<" ">> \o fallbackUrl),
                                      FALSE))
           base == SubSeq(slug, 1, IF Len(slug) < 48 THEN Len(slug) ELSE 48)
       IN  <<"m","c","p","-">> \o base

\* A normalizer that keeps an entry whose source is "managed".
normalizeServer_KeepManaged(raw) ==
  IF raw.type # "object" THEN <<>>
  ELSE LET name == normalizeName(raw.name)
           rawUrl == normalizeOptionalConfigString(raw.url)
           url == validateMcpServerUrl(rawUrl)
       IN  IF name = <<>> \/ rawUrl = <<>> \/ url = <<>> THEN <<>>
           ELSE << [id |-> normalizeServerId(raw.id, name, url),
                    name |-> name,
                    url |-> url,
                    enabled |-> normalizeEnabled(raw.enabled),
                    token |-> normalizeOptionalConfigString(raw.token),
                    source |-> IF raw.source = Str(<<"m","a","n","a","g","e","d">>)
                               THEN "managed" ELSE "custom",
                    managedId |-> ""] >>

\* One configuration, or <<>> for null.
normalizeServer(raw) ==
  IF raw.type # "object" THEN <<>>
  ELSE IF raw.source = Str(<<"m","a","n","a","g","e","d">>) THEN <<>>
  ELSE LET name == normalizeName(raw.name)
           rawUrl == normalizeOptionalConfigString(raw.url)
           url == validateMcpServerUrl(rawUrl)
       IN  IF name = <<>> \/ rawUrl = <<>> THEN <<>>
           ELSE IF url = <<>> THEN <<>>
           ELSE << [id |-> normalizeServerId(raw.id, name, url),
                    name |-> name,
                    url |-> url,
                    enabled |-> normalizeEnabled(raw.enabled),
                    token |-> normalizeOptionalConfigString(raw.token),
                    source |-> "custom",
                    managedId |-> ""] >>

\* String(suffix) for the suffixes the loop can reach.
SuffixText(suffix) == <<"-", Digits[suffix + 1]>>

\* while (used.has(`${candidate}-${suffix}`)) suffix += 1
RECURSIVE FreeSuffix(_, _, _)
FreeSuffix(candidate, used, suffix) ==
  IF (candidate \o SuffixText(suffix)) \in used
  THEN FreeSuffix(candidate, used, suffix + 1)
  ELSE suffix

RECURSIVE UniqueFrom(_, _)
UniqueFrom(list, used) ==
  IF list = <<>> THEN <<>>
  ELSE LET server == Head(list)
           candidate ==
             IF server.id \in used
             THEN server.id \o SuffixText(FreeSuffix(server.id, used, 2))
             ELSE server.id
       IN  <<[server EXCEPT !.id = candidate]>>
             \o UniqueFrom(Tail(list), used \cup {candidate})

uniqueById(list) == UniqueFrom(list, {})

\* A stored value is undefined, an array (its items are `servers`) or a
\* record (`servers` is its servers array, `entries` its flags: those of its
\* enabledById record for a "document", its own for a "record").
ItemsOf(raw) ==
  IF raw.kind \in {"array", "document"} THEN raw.servers ELSE <<>>

RECURSIVE ParseItems(_)
ParseItems(source) ==
  IF source = <<>> THEN <<>>
  ELSE normalizeServer(Head(source)) \o ParseItems(Tail(source))

normalizeServers(raw) == uniqueById(ParseItems(ItemsOf(raw)))

\* A configuration as the store holds it.
ToItem(server) ==
  [type |-> "object",
   id |-> Str(server.id),
   name |-> Str(server.name),
   url |-> Str(server.url),
   enabled |-> Bool(server.enabled),
   token |-> IF server.token = <<>> THEN Undefined ELSE Str(server.token),
   source |-> Str(<<"c","u","s","t","o","m">>)]

\* The ids a stored value can carry a flag for; Undefined is no flag.
ManagedKeys == {"jamaica-market", "legacy-market"}

NoFlags == [k \in ManagedKeys |-> Undefined]

createDocument(list) ==
  [kind |-> "document",
   servers |-> [i \in DOMAIN list |-> ToItem(list[i])],
   entries |-> NoFlags]

parseManagedEnabledMap(raw) ==
  IF raw.kind \in {"document", "record"}
  THEN [k \in ManagedKeys |->
          IF raw.entries[k] = Undefined THEN Undefined
          ELSE Bool(normalizeEnabled(raw.entries[k]))]
  ELSE NoFlags

createManagedDocument(enabledById) ==
  [kind |-> "document", servers |-> <<>>, entries |-> enabledById]

\* "http://localhost"
LocalOrigin ==
  <<"h","t","t","p",":","/","/","l","o","c","a","l","h","o","s","t">>

\* window.location.origin is absent (the store is used outside a page).
resolveOrigin(originOverride) ==
  LET fromOverride == normalizeOptionalConfigString(originOverride)
  IN  IF fromOverride # <<>> THEN StripTrailingSlashes(fromOverride) ELSE LocalOrigin

listManagedMcpServerDefinitions(originOverride) ==
  LET origin == resolveOrigin(originOverride)
  IN  [i \in DOMAIN MANAGED_MCP_SERVER_DEFINITIONS |->
         LET definition == MANAGED_MCP_SERVER_DEFINITIONS[i]
         IN  [id |-> definition.id,
              name |-> definition.name,
              url |-> origin \o definition.urlPath,
              enabled |-> TRUE,
              token |-> <<>>,
              source |-> "managed",
              managedId |-> definition.managedId]]

MCP_SERVERS_SETTING_KEY == "mcp.servers.v1"

MCP_MANAGED_SERVERS_SETTING_KEY == "mcp.managed.v1"

loadMcpServers(store) == normalizeServers(store[MCP_SERVERS_SETTING_KEY])

\* A call that writes the server list to the other key.
saveMcpServers_ManagedKey(list) ==
  [key |-> MCP_MANAGED_SERVERS_SETTING_KEY,
   value |-> createDocument(uniqueById(normalizeServers(
               [kind |-> "array", servers |-> list, entries |-> NoFlags])))]

\* The settings.set call saveMcpServers makes: its key and its value.
saveMcpServers(list) ==
  LET customServersOnly ==
        SelectSeq(list, LAMBDA server : server.source # Str(<<"m","a","n","a","g","e","d">>))
      normalized ==
        uniqueById(normalizeServers(
          [kind |-> "array", servers |-> customServersOnly, entries |-> NoFlags]))
  IN  [key |-> MCP_SERVERS_SETTING_KEY, value |-> createDocument(normalized)]

loadManagedMcpEnabledState(store) ==
  parseManagedEnabledMap(store[MCP_MANAGED_SERVERS_SETTING_KEY])

\* The settings.set call saveManagedMcpEnabledState makes.
saveManagedMcpEnabledState(enabledById) ==
  [key |-> MCP_MANAGED_SERVERS_SETTING_KEY, value |-> createManagedDocument(enabledById)]

\* A toggle that writes the one flag alone.
setManagedMcpServerEnabled_Fresh(existing, managedId, enabled) ==
  saveManagedMcpEnabledState([NoFlags EXCEPT ![managedId] = Bool(enabled)])

\* setManagedMcpServerEnabled once the stored flags are read.
setManagedMcpServerEnabled(existing, managedId, enabled) ==
  saveManagedMcpEnabledState([existing EXCEPT ![managedId] = Bool(enabled)])

loadManagedMcpServers(store, originOverride) ==
  LET definitions == listManagedMcpServerDefinitions(originOverride)
      enabledById == loadManagedMcpEnabledState(store)
  IN  [i \in DOMAIN definitions |->
         [definitions[i] EXCEPT !.enabled =
            IF enabledById[definitions[i].managedId] = Undefined THEN TRUE
            ELSE enabledById[definitions[i].managedId] = Bool(TRUE)]]

loadEffectiveMcpServers(store, originOverride) ==
  loadManagedMcpServers(store, originOverride) \o loadMcpServers(store)

(***************************************************************************)
(* The inputs: stored values of every shape the loaders accept, lists      *)
(* with repeated, padded and missing ids, an id that is the managed        *)
(* server's, entries the loaders drop.                                     *)
(***************************************************************************)
\* "https://a.io"
UrlA == <<"h","t","t","p","s",":","/","/","a",".","i","o">>

ItemA ==
  [type |-> "object", id |-> Str(<<"a">>), name |-> Str(<<"A">>), url |-> Str(UrlA),
   enabled |-> Bool(TRUE), token |-> Undefined, source |-> Undefined]

ItemPadded ==
  [ItemA EXCEPT !.id = Str(<<" ","a"," ">>), !.url = Str(UrlA \o <<"/">>),
                !.enabled = Str(<<"O","f","f">>)]

ItemSuffixed == [ItemA EXCEPT !.id = Str(<<"a","-","2">>)]

ItemWithManagedId == [ItemA EXCEPT !.id = Str(MANAGED_MCP_SERVER_DEFINITIONS[1].id)]

ItemManaged ==
  [ItemA EXCEPT !.id = Str(<<"m">>), !.source = Str(<<"m","a","n","a","g","e","d">>)]

ItemNoId == [ItemA EXCEPT !.id = Undefined, !.token = Str(<<" ","k">>)]

ItemNoName == [ItemA EXCEPT !.name = Str(<<" ">>)]

ItemFtp == [ItemA EXCEPT !.url = Str(<<"f","t","p",":","/","/","a",".","i","o">>)]

ItemScalar == [ItemA EXCEPT !.type = "string"]

ServerLists ==
  { <<>>,
    <<ItemA>>,
    <<ItemA, ItemPadded>>,
    <<ItemA, ItemPadded, ItemSuffixed>>,
    <<ItemSuffixed, ItemA, ItemPadded>>,
    <<ItemWithManagedId, ItemA>>,
    <<ItemManaged, ItemA>>,
    <<ItemNoId, ItemNoName, ItemFtp, ItemScalar>> }

StoredServers ==
       { [kind |-> "undefined", servers |-> <<>>, entries |-> NoFlags] }
  \cup { [kind |-> k, servers |-> l, entries |-> NoFlags] :
           k \in {"array", "document"}, l \in ServerLists }

StoredFlags ==
  { [kind |-> "undefined", servers |-> <<>>, entries |-> NoFlags],
    [kind |-> "document", servers |-> <<>>,
     entries |-> [NoFlags EXCEPT !["jamaica-market"] = Bool(FALSE)]],
    [kind |-> "document", servers |-> <<>>,
     entries |-> [NoFlags EXCEPT !["jamaica-market"] = Str(<<" ","O","F","F">>),
                                 !["legacy-market"] = Bool(TRUE)]],
    [kind |-> "record", servers |-> <<>>,
     entries |-> [NoFlags EXCEPT !["jamaica-market"] = Num(<<"0">>)]],
    [kind |-> "record", servers |-> <<>>,
     entries |-> [NoFlags EXCEPT !["legacy-market"] = Bool(FALSE)]] }

\* "https://f.io/"
OriginOverrides ==
  { Undefined, Str(<<"h","t","t","p","s",":","/","/","f",".","i","o","/">>) }

NoCall ==
  [op |-> "none", servers |-> <<>>, managedId |-> "", enabled |-> FALSE,
   originOverride |-> Undefined]

RegistryCalls ==
       { [NoCall EXCEPT !.op = "saveMcpServers", !.servers = l] : l \in ServerLists }
  \cup { [NoCall EXCEPT !.op = "setManagedMcpServerEnabled",
                        !.managedId = "jamaica-market", !.enabled = e] : e \in BOOLEAN }
  \cup { [NoCall EXCEPT !.op = o, !.originOverride = v] :
           o \in {"loadManagedMcpServers", "loadEffectiveMcpServers"},
           v \in OriginOverrides }
  \cup { [NoCall EXCEPT !.op = "loadMcpServers"] }

EmptyStore ==
  [k \in {MCP_SERVERS_SETTING_KEY, MCP_MANAGED_SERVERS_SETTING_KEY} |->
     [kind |-> "undefined", servers |-> <<>>, entries |-> NoFlags]]

\* toggled is history: the flag of the last setManagedMcpServerEnabled that
\* completed, Undefined before the first.
IdleRegistry ==
  [pc |-> "idle", call |-> NoCall,
   write |-> [key |-> "", value |-> [kind |-> "undefined", servers |-> <<>>,
                                     entries |-> NoFlags]],
   result |-> <<>>, toggled |-> Undefined]

RegistryInit ==
  /\ settings \in { [EmptyStore EXCEPT ![MCP_SERVERS_SETTING_KEY] = s,
                                       ![MCP_MANAGED_SERVERS_SETTING_KEY] = f] :
                      s \in StoredServers, f \in StoredFlags }
  /\ reg = IdleRegistry

\* A registry function is called; saveMcpServers runs up to its settings.set,
\* the others up to their settings.get.
RegistryCall(c) ==
  /\ reg.pc = "idle"
  /\ reg' = IF c.op = "saveMcpServers"
            THEN [reg EXCEPT !.pc = "set", !.call = c, !.result = <<>>,
                             !.write = saveMcpServers(c.servers)]
            ELSE [reg EXCEPT !.pc = "get", !.call = c, !.result = <<>>]
  /\ UNCHANGED <<settings, jamaicaVars, budgetVars, callVars, catalogVars, gwVars, edgeVars, proxyVars,
               managedVars>>

\* settings.get resolves: a loader returns its list, the toggle goes on to
\* its settings.set.
SettingsGet ==
  /\ reg.pc = "get"
  /\ reg' =
       CASE reg.call.op = "loadMcpServers" ->
              [reg EXCEPT !.pc = "idle", !.result = loadMcpServers(settings)]
         [] reg.call.op = "loadManagedMcpServers" ->
              [reg EXCEPT !.pc = "idle",
                          !.result = loadManagedMcpServers(settings, reg.call.originOverride)]
         [] reg.call.op = "loadEffectiveMcpServers" ->
              [reg EXCEPT !.pc = "idle",
                          !.result = loadEffectiveMcpServers(settings, reg.call.originOverride)]
         [] OTHER ->
              [reg EXCEPT !.pc = "set",
                          !.write = setManagedMcpServerEnabled(
                                      loadManagedMcpEnabledState(settings),
                                      reg.call.managedId, reg.call.enabled)]
  /\ UNCHANGED <<settings, jamaicaVars, budgetVars, callVars, catalogVars, gwVars, edgeVars, proxyVars,
               managedVars>>

\* settings.set resolves and the call returns.
SettingsSet ==
  /\ reg.pc = "set"
  /\ settings' = [settings EXCEPT ![reg.write.key] = reg.write.value]
  /\ reg' = [reg EXCEPT !.pc = "idle",
                        !.toggled = IF reg.call.op = "setManagedMcpServerEnabled"
                                    THEN Bool(reg.call.enabled) ELSE @]
  /\ UNCHANGED <<jamaicaVars, budgetVars, callVars, catalogVars, gwVars, edgeVars, proxyVars,
               managedVars>>

RegistryNext ==
  \/ \E c \in RegistryCalls : RegistryCall(c)
  \/ SettingsGet
  \/ SettingsSet


DistinctIds(list) ==
  \A i, j \in DOMAIN list : list[i].id = list[j].id => i = j

\* C23: every list loadMcpServers or loadEffectiveMcpServers returns, after
\* any saves and toggles and for any stored value, has pairwise distinct ids.
C23_ReturnedIdsDistinct ==
  /\ DistinctIds(loadMcpServers(settings))
  /\ \A v \in OriginOverrides : DistinctIds(loadEffectiveMcpServers(settings, v))
  /\ (reg.pc = "idle" /\ reg.call.op \in {"loadMcpServers", "loadEffectiveMcpServers"})
       => DistinctIds(reg.result)

InProgress(operation) == reg.pc # "idle" /\ reg.call.op = operation

\* C24: a step of setManagedMcpServerEnabled leaves the value stored under
\* the custom servers' key as it is, and a step of saveMcpServers leaves the
\* value stored under the managed flags' key as it is.
C24_EachWritesItsOwnKey ==
  [][ /\ InProgress("setManagedMcpServerEnabled")
           => settings'[MCP_SERVERS_SETTING_KEY] = settings[MCP_SERVERS_SETTING_KEY]
      /\ InProgress("saveMcpServers")
           => settings'[MCP_MANAGED_SERVERS_SETTING_KEY]
                = settings[MCP_MANAGED_SERVERS_SETTING_KEY] ]_vars

\* A save and a toggle have both completed, on a store that holds servers
\* and a flag.
C24_Witness ==
  /\ reg.pc = "idle"
  /\ reg.call.op = "saveMcpServers"
  /\ reg.toggled = Bool(FALSE)
  /\ settings[MCP_SERVERS_SETTING_KEY].servers # <<>>
  /\ loadManagedMcpEnabledState(settings)["jamaica-market"] = Bool(FALSE)

IsManagedItem(item) == item.source = Str(<<"m","a","n","a","g","e","d">>)

\* C25: the value saveMcpServers writes has no entry whose source is
\* "managed", whatever list it is given, and loadMcpServers returns no
\* managed entry, whatever the stored value holds.
C25_ManagedNeverPersistedNorLoaded ==
  /\ InProgress("saveMcpServers")
       => \A i \in DOMAIN reg.write.value.servers :
            ~ IsManagedItem(reg.write.value.servers[i])
  /\ (reg.pc = "idle" /\ reg.call.op = "saveMcpServers")
       => \A i \in DOMAIN settings[MCP_SERVERS_SETTING_KEY].servers :
            ~ IsManagedItem(settings[MCP_SERVERS_SETTING_KEY].servers[i])
  /\ \A i \in DOMAIN loadMcpServers(settings) :
       loadMcpServers(settings)[i].source = "custom"
  /\ (reg.pc = "idle" /\ reg.call.op = "loadMcpServers")
       => \A i \in DOMAIN reg.result : reg.result[i].source = "custom"

\* loadMcpServers has returned the custom entry of a stored value that also
\* holds a managed one.
C25_Witness ==
  /\ reg.pc = "idle"
  /\ reg.call.op = "loadMcpServers"
  /\ \E i \in DOMAIN settings[MCP_SERVERS_SETTING_KEY].servers :
       IsManagedItem(settings[MCP_SERVERS_SETTING_KEY].servers[i])
  /\ Len(reg.result) = 1

NoOverrideStored(managedId) ==
  \/ ~ (settings[MCP_MANAGED_SERVERS_SETTING_KEY].kind \in {"document", "record"})
  \/ settings[MCP_MANAGED_SERVERS_SETTING_KEY].entries[managedId] = Undefined

ReportedEnabled(list, managedId) ==
  \A i \in DOMAIN list : list[i].managedId = managedId => list[i].enabled

ReportedDisabled(list, managedId) ==
  \A i \in DOMAIN list : list[i].managedId = managedId => ~ list[i].enabled

\* C26: a managed server with no stored override is reported enabled; once
\* setManagedMcpServerEnabled(managedId, e) has completed, loadManagedMcpServers
\* reports enabled = e until the next toggle writes; the toggle's write keeps
\* the flag of every other managed id.
C26_ToggleRoundTrip ==
  /\ [](\A v \in OriginOverrides :
          /\ NoOverrideStored("jamaica-market")
               => ReportedEnabled(loadManagedMcpServers(settings, v), "jamaica-market")
          /\ reg.toggled = Bool(TRUE)
               => ReportedEnabled(loadManagedMcpServers(settings, v), "jamaica-market")
          /\ reg.toggled = Bool(FALSE)
               => ReportedDisabled(loadManagedMcpServers(settings, v), "jamaica-market"))
  /\ []((reg.pc = "idle" /\ reg.call.op = "loadManagedMcpServers" /\ reg.result # <<>>)
          => /\ reg.toggled = Bool(TRUE) => ReportedEnabled(reg.result, "jamaica-market")
             /\ reg.toggled = Bool(FALSE) => ReportedDisabled(reg.result, "jamaica-market"))
  /\ [][ InProgress("setManagedMcpServerEnabled")
           => \A k \in ManagedKeys \ {reg.call.managedId} :
                loadManagedMcpEnabledState(settings')[k]
                  = loadManagedMcpEnabledState(settings)[k] ]_vars

\* loadManagedMcpServers has reported the server disabled after a toggle to
\* false, on a store that also holds a flag for another id.
C26_Witness ==
  /\ reg.pc = "idle"
  /\ reg.call.op = "loadManagedMcpServers"
  /\ reg.toggled = Bool(FALSE)
  /\ Len(reg.result) = 1
  /\ ~ reg.result[1].enabled
  /\ loadManagedMcpEnabledState(settings)["legacy-market"] # Undefined

(***************************************************************************)
(* The jamaica_market tool (jamaica-market.ts): one execute call at a      *)
(* time, cut at its two awaits (getRuntimeConfig, callJsonRpc).  Raw       *)
(* parameters are a record of JSON values, or not a record at all.         *)
(***************************************************************************)
ACTION_VALUES ==
  << "list_companies",
     "get_company",
     "get_statement",
     "get_all_statements",
     "get_price_data" >>

\* The characters of each action value, in the order of ACTION_VALUES.
ActionTexts ==
  << <<"l","i","s","t","_","c","o","m","p","a","n","i","e","s">>,
     <<"g","e","t","_","c","o","m","p","a","n","y">>,
     <<"g","e","t","_","s","t","a","t","e","m","e","n","t">>,
     <<"g","e","t","_","a","l","l","_","s","t","a","t","e","m","e","n","t","s">>,
     <<"g","e","t","_","p","r","i","c","e","_","d","a","t","a">> >>

\* "Managed Jamaica Market server is disabled.", the sentence the message starts
\* with; it goes on with " Open ${integrationsCommandHint()} and enable Jamaica
\* Market Data."
TextJamaicaDisabled ==
  <<"M","a","n","a","g","e","d"," ","J","a","m","a","i","c","a"," ","M","a",
    "r","k","e","t"," ","s","e","r","v","e","r"," ","i","s"," ","d","i","s",
    "a","b","l","e","d",".">>

\* "Managed Jamaica Market server is unavailable."
TextJamaicaUnavailable ==
  <<"M","a","n","a","g","e","d"," ","J","a","m","a","i","c","a"," ","M","a",
    "r","k","e","t"," ","s","e","r","v","e","r"," ","i","s"," ","u","n","a",
    "v","a","i","l","a","b","l","e",".">>

\* "Managed Jamaica market request timed out after 15000ms."
TextJamaicaTimeout ==
  <<"M","a","n","a","g","e","d"," ","J","a","m","a","i","c","a"," ","m","a",
    "r","k","e","t"," ","r","e","q","u","e","s","t"," ","t","i","m","e","d",
    " ","o","u","t"," ","a","f","t","e","r"," ","1","5","0","0","0","m","s",
    ".">>

\* "Invalid jamaica_market params: expected an object."
TextJamaicaParams ==
  <<"I","n","v","a","l","i","d"," ","j","a","m","a","i","c","a","_","m","a",
    "r","k","e","t"," ","p","a","r","a","m","s",":"," ","e","x","p","e","c",
    "t","e","d"," ","a","n"," ","o","b","j","e","c","t",".">>

\* "action must be one of: list_companies, get_company, get_statement, get_all_statements, get_price_data"
TextJamaicaAction ==
  <<"a","c","t","i","o","n"," ","m","u","s","t"," ","b","e"," ","o","n","e",
    " ","o","f",":"," ","l","i","s","t","_","c","o","m","p","a","n","i","e",
    "s",","," ","g","e","t","_","c","o","m","p","a","n","y",","," ","g","e",
    "t","_","s","t","a","t","e","m","e","n","t",","," ","g","e","t","_","a",
    "l","l","_","s","t","a","t","e","m","e","n","t","s",","," ","g","e","t",
    "_","p","r","i","c","e","_","d","a","t","a">>

\* "symbol must contain only letters, digits, dot, or dash."
TextSymbolChars ==
  <<"s","y","m","b","o","l"," ","m","u","s","t"," ","c","o","n","t","a","i",
    "n"," ","o","n","l","y"," ","l","e","t","t","e","r","s",","," ","d","i",
    "g","i","t","s",","," ","d","o","t",","," ","o","r"," ","d","a","s","h",
    ".">>

\* "frequency must be Annual or Quarterly."
TextFrequency ==
  <<"f","r","e","q","u","e","n","c","y"," ","m","u","s","t"," ","b","e"," ",
    "A","n","n","u","a","l"," ","o","r"," ","Q","u","a","r","t","e","r","l",
    "y",".">>

\* "statement_type must be IS, BS, or CF."
TextStatementType ==
  <<"s","t","a","t","e","m","e","n","t","_","t","y","p","e"," ","m","u","s",
    "t"," ","b","e"," ","I","S",","," ","B","S",","," ","o","r"," ","C","F",
    ".">>

\* "limit must be an integer."
TextLimitInteger ==
  <<"l","i","m","i","t"," ","m","u","s","t"," ","b","e"," ","a","n"," ","i",
    "n","t","e","g","e","r",".">>

\* "year must be an integer."
TextYearInteger ==
  <<"y","e","a","r"," ","m","u","s","t"," ","b","e"," ","a","n"," ","i","n",
    "t","e","g","e","r",".">>

\* "years must be an integer."
TextYearsInteger ==
  <<"y","e","a","r","s"," ","m","u","s","t"," ","b","e"," ","a","n"," ","i",
    "n","t","e","g","e","r",".">>

\* "limit must be between 1 and 500."
TextLimitRange ==
  <<"l","i","m","i","t"," ","m","u","s","t"," ","b","e"," ","b","e","t","w",
    "e","e","n"," ","1"," ","a","n","d"," ","5","0","0",".">>

\* "year must be between 1990 and 2027."
TextYearRange ==
  <<"y","e","a","r"," ","m","u","s","t"," ","b","e"," ","b","e","t","w","e",
    "e","n"," ","1","9","9","0"," ","a","n","d"," ","2","0","2","7",".">>

\* "years must be between 1 and 10."
TextYearsRange ==
  <<"y","e","a","r","s"," ","m","u","s","t"," ","b","e"," ","b","e","t","w",
    "e","e","n"," ","1"," ","a","n","d"," ","1","0",".">>

\* "start_date must be YYYY-MM-DD."
TextStartDateShape ==
  <<"s","t","a","r","t","_","d","a","t","e"," ","m","u","s","t"," ","b","e",
    " ","Y","Y","Y","Y","-","M","M","-","D","D",".">>

\* "end_date must be YYYY-MM-DD."
TextEndDateShape ==
  <<"e","n","d","_","d","a","t","e"," ","m","u","s","t"," ","b","e"," ","Y",
    "Y","Y","Y","-","M","M","-","D","D",".">>

\* "start_date is not a valid date."
TextStartDateInvalid ==
  <<"s","t","a","r","t","_","d","a","t","e"," ","i","s"," ","n","o","t"," ",
    "a"," ","v","a","l","i","d"," ","d","a","t","e",".">>

\* "end_date is not a valid date."
TextEndDateInvalid ==
  <<"e","n","d","_","d","a","t","e"," ","i","s"," ","n","o","t"," ","a"," ",
    "v","a","l","i","d"," ","d","a","t","e",".">>

\* "start_date must be on or before end_date."
TextDateOrder ==
  <<"s","t","a","r","t","_","d","a","t","e"," ","m","u","s","t"," ","b","e",
    " ","o","n"," ","o","r"," ","b","e","f","o","r","e"," ","e","n","d","_",
    "d","a","t","e",".">>

\* The message of each error execute can catch; an error of callJsonRpc has
\* the text MessageText gives it.
JamaicaMessageText(m) ==
  CASE m = "J_Disabled" -> TextJamaicaDisabled
    [] m = "J_Unavailable" -> TextJamaicaUnavailable
    [] m = "J_Timeout" -> TextJamaicaTimeout
    [] m = "J_ParamsNotObject" -> TextJamaicaParams
    [] m = "J_Action" -> TextJamaicaAction
    [] m = "J_SymbolType" -> TextRpcValidation
    [] m = "J_SymbolChars" -> TextSymbolChars
    [] m = "J_Frequency" -> TextFrequency
    [] m = "J_StatementType" -> TextStatementType
    [] m = "J_LimitInteger" -> TextLimitInteger
    [] m = "J_YearInteger" -> TextYearInteger
    [] m = "J_YearsInteger" -> TextYearsInteger
    [] m = "J_LimitRange" -> TextLimitRange
    [] m = "J_YearRange" -> TextYearRange
    [] m = "J_YearsRange" -> TextYearsRange
    [] m = "J_StartDateShape" -> TextStartDateShape
    [] m = "J_EndDateShape" -> TextEndDateShape
    [] m = "J_StartDateInvalid" -> TextStartDateInvalid
    [] m = "J_EndDateInvalid" -> TextEndDateInvalid
    [] m = "J_DateOrder" -> TextDateOrder
    [] OTHER -> MessageText(m)

\* Raw parameters: whether they are a record, the action and the other fields.
NoRawParams == [isRecord |-> TRUE, action |-> Undefined, args |-> NoArgs]

NoJamaicaParams == [ok |-> TRUE, error |-> "none", action |-> "", args |-> NoArgs]

\* A number that Number.isInteger takes, written without fraction or exponent.
IsIntegerNumber(value) ==
  /\ value.type = "number"
  /\ LET digits == IF value.text # <<>> /\ Head(value.text) = "-"
                   THEN Tail(value.text) ELSE value.text
     IN  digits # <<>> /\ \A i \in DOMAIN digits : IsDigit(digits[i])

\* normalizeOptionalString of jamaica-market.ts, as a JSON value: the trimmed
\* string, undefined for an empty one or a value of another type.
OptionalString(value) ==
  IF value.type = "string" /\ Trim(value.text) # <<>> THEN Str(Trim(value.text))
  ELSE Undefined

OptionalInteger(value) == IF IsIntegerNumber(value) THEN value ELSE Undefined

isAction(text) == \E i \in DOMAIN ActionTexts : ActionTexts[i] = text

\* parseParams of jamaica-market.ts: the Params, or the error it throws.
parseJamaicaParams(raw) ==
  LET actionRaw == OptionalString(raw.action)
  IN  IF ~ raw.isRecord THEN [NoJamaicaParams EXCEPT !.ok = FALSE, !.error = "J_ParamsNotObject"]
      ELSE IF actionRaw = Undefined \/ ~ isAction(actionRaw.text)
      THEN [NoJamaicaParams EXCEPT !.ok = FALSE, !.error = "J_Action"]
      ELSE [NoJamaicaParams EXCEPT
              !.action = ACTION_VALUES[CHOOSE i \in DOMAIN ActionTexts :
                                         ActionTexts[i] = actionRaw.text],
              !.args = [NoArgs EXCEPT
                          !.symbol = OptionalString(raw.args.symbol),
                          !.frequency = OptionalString(raw.args.frequency),
                          !.statement_type = OptionalString(raw.args.statement_type),
                          !.year = OptionalInteger(raw.args.year),
                          !.years = OptionalInteger(raw.args.years),
                          !.start_date = OptionalString(raw.args.start_date),
                          !.end_date = OptionalString(raw.args.end_date),
                          !.limit = OptionalInteger(raw.args.limit)]]

\* A normalizeBoundedInteger that does not look at the range.
normalizeBoundedInteger_Unbounded(value, min, max) ==
  IF ~ IsIntegerNumber(value) THEN [ok |-> FALSE, why |-> "integer", value |-> value]
  ELSE [ok |-> TRUE, why |-> "none", value |-> value]

\* normalizeBoundedInteger: the number, or why it is refused.
normalizeBoundedInteger(value, min, max) ==
  IF ~ IsIntegerNumber(value) THEN [ok |-> FALSE, why |-> "integer", value |-> value]
  ELSE IF parseInt(value.text).n < min \/ parseInt(value.text).n > max
  THEN [ok |-> FALSE, why |-> "range", value |-> value]
  ELSE [ok |-> TRUE, why |-> "none", value |-> value]

ToolCallThrows(m) ==
  [ok |-> FALSE, error |-> m, action |-> "", toolName |-> "", arguments |-> NoArgs]

ToolCall(action, toolName, arguments) ==
  [ok |-> TRUE, error |-> "none", action |-> action, toolName |-> toolName,
   arguments |-> arguments]

SymbolError(value) == IF value.type # "string" THEN "J_SymbolType" ELSE "J_SymbolChars"

DateError(value, shape, invalid) ==
  IF value.type # "string" \/ ~ IsoDateShape(Trim(value.text)) THEN shape ELSE invalid

\* buildManagedToolCall: the managed tool and the arguments to send, or the
\* first error in the order the code evaluates the fields.
buildManagedToolCall(params) ==
  LET a == params.args
      symbol == normalizeSymbol(a.symbol)
      frequency == normalizeFrequency(a.frequency)
      statementType == normalizeStatementType(a.statement_type)
      limit == normalizeBoundedInteger(a.limit, 1, 500)
      year == normalizeBoundedInteger(a.year, 1990, UtcFullYear + 1)
      years == normalizeBoundedInteger(a.years, 1, 10)
      startDate == normalizeIsoDate(a.start_date)
      endDate == normalizeIsoDate(a.end_date)
  IN  CASE params.action = "list_companies" ->
             IF a.limit # Undefined /\ ~ limit.ok
             THEN ToolCallThrows(IF limit.why = "integer" THEN "J_LimitInteger"
                                 ELSE "J_LimitRange")
             ELSE ToolCall(params.action, "jm_list_companies",
                           [NoArgs EXCEPT !.limit = a.limit])
        [] params.action = "get_company" ->
             IF ~ symbol.ok THEN ToolCallThrows(SymbolError(a.symbol))
             ELSE ToolCall(params.action, "jm_get_company",
                           [NoArgs EXCEPT !.symbol = Str(symbol.value)])
        [] params.action = "get_statement" ->
             IF ~ symbol.ok THEN ToolCallThrows(SymbolError(a.symbol))
             ELSE IF ~ frequency.ok THEN ToolCallThrows("J_Frequency")
             ELSE IF ~ statementType.ok THEN ToolCallThrows("J_StatementType")
             ELSE IF a.year # Undefined /\ ~ year.ok
             THEN ToolCallThrows(IF year.why = "integer" THEN "J_YearInteger"
                                 ELSE "J_YearRange")
             ELSE ToolCall(params.action, "jm_get_statement",
                           [NoArgs EXCEPT !.symbol = Str(symbol.value),
                                          !.frequency = Str(frequency.value),
                                          !.statement_type = Str(statementType.value),
                                          !.year = a.year])
        [] params.action = "get_all_statements" ->
             IF ~ symbol.ok THEN ToolCallThrows(SymbolError(a.symbol))
             ELSE IF ~ frequency.ok THEN ToolCallThrows("J_Frequency")
             ELSE IF a.years # Undefined /\ ~ years.ok
             THEN ToolCallThrows(IF years.why = "integer" THEN "J_YearsInteger"
                                 ELSE "J_YearsRange")
             ELSE ToolCall(params.action, "jm_get_all_statements",
                           [NoArgs EXCEPT !.symbol = Str(symbol.value),
                                          !.frequency = Str(frequency.value),
                                          !.years = a.years])
        [] OTHER ->
             IF ~ startDate.ok
             THEN ToolCallThrows(DateError(a.start_date, "J_StartDateShape",
                                           "J_StartDateInvalid"))
             ELSE IF ~ endDate.ok
             THEN ToolCallThrows(DateError(a.end_date, "J_EndDateShape",
                                           "J_EndDateInvalid"))
             ELSE IF TextGreater(startDate.value, endDate.value)
             THEN ToolCallThrows("J_DateOrder")
             ELSE IF ~ symbol.ok THEN ToolCallThrows(SymbolError(a.symbol))
             ELSE ToolCall(params.action, "jm_get_price_data",
                           [NoArgs EXCEPT !.symbol = Str(symbol.value),
                                          !.start_date = Str(startDate.value),
                                          !.end_date = Str(endDate.value)])

JamaicaRawParams ==
  { [NoRawParams EXCEPT !.isRecord = FALSE],
    NoRawParams,
    [NoRawParams EXCEPT !.action = Str(<<"b","o","g","u","s">>), !.args = NoArgs],
    [NoRawParams EXCEPT !.action = Str(<<"l","i","s","t","_","c","o","m","p","a","n","i","e","s">>), !.args = NoArgs],
    [NoRawParams EXCEPT !.action = Str(<<" ","l","i","s","t","_","c","o","m","p","a","n","i","e","s"," ">>), !.args = [NoArgs EXCEPT !.limit = Num(<<"5">>)]],
    [NoRawParams EXCEPT !.action = Str(<<"l","i","s","t","_","c","o","m","p","a","n","i","e","s">>), !.args = [NoArgs EXCEPT !.limit = Num(<<"5","0","1">>)]],
    [NoRawParams EXCEPT !.action = Str(<<"l","i","s","t","_","c","o","m","p","a","n","i","e","s">>), !.args = [NoArgs EXCEPT !.limit = Str(<<"5">>)]],
    [NoRawParams EXCEPT !.action = Str(<<"g","e","t","_","c","o","m","p","a","n","y">>), !.args = [NoArgs EXCEPT !.symbol = Str(<<" ","g","k"," ">>)]],
    [NoRawParams EXCEPT !.action = Str(<<"g","e","t","_","c","o","m","p","a","n","y">>), !.args = NoArgs],
    [NoRawParams EXCEPT !.action = Str(<<"g","e","t","_","c","o","m","p","a","n","y">>), !.args = [NoArgs EXCEPT !.symbol = Str(<<"g"," ","k">>)]],
    [NoRawParams EXCEPT !.action = Str(<<"g","e","t","_","s","t","a","t","e","m","e","n","t">>), !.args = [NoArgs EXCEPT !.symbol = Str(<<"g","k">>), !.frequency = Str(<<"a","n","n","u","a","l">>), !.statement_type = Str(<<"i","s">>), !.year = Num(<<"2","0","2","4">>)]],
    [NoRawParams EXCEPT !.action = Str(<<"g","e","t","_","s","t","a","t","e","m","e","n","t">>), !.args = [NoArgs EXCEPT !.symbol = Str(<<"g","k">>), !.frequency = Str(<<"a","n","n","u","a","l">>), !.statement_type = Str(<<"i","s">>), !.year = Num(<<"2","0","2","8">>)]],
    [NoRawParams EXCEPT !.action = Str(<<"g","e","t","_","s","t","a","t","e","m","e","n","t">>), !.args = [NoArgs EXCEPT !.symbol = Str(<<"g","k">>), !.frequency = Str(<<"w","e","e","k","l","y">>), !.statement_type = Str(<<"i","s">>)]],
    [NoRawParams EXCEPT !.action = Str(<<"g","e","t","_","a","l","l","_","s","t","a","t","e","m","e","n","t","s">>), !.args = [NoArgs EXCEPT !.symbol = Str(<<"g","k">>), !.frequency = Str(<<"Q","u","a","r","t","e","r","l","y"," ">>), !.years = Num(<<"3">>)]],
    [NoRawParams EXCEPT !.action = Str(<<"g","e","t","_","a","l","l","_","s","t","a","t","e","m","e","n","t","s">>), !.args = [NoArgs EXCEPT !.symbol = Str(<<"g","k">>), !.frequency = Str(<<"a","n","n","u","a","l">>), !.years = Num(<<"0">>)]],
    [NoRawParams EXCEPT !.action = Str(<<"g","e","t","_","p","r","i","c","e","_","d","a","t","a">>), !.args = [NoArgs EXCEPT !.symbol = Str(<<"g","k">>), !.start_date = Str(<<"2","0","2","4","-","0","1","-","0","1">>), !.end_date = Str(<<"2","0","2","4","-","0","2","-","0","1">>)]],
    [NoRawParams EXCEPT !.action = Str(<<"g","e","t","_","p","r","i","c","e","_","d","a","t","a">>), !.args = [NoArgs EXCEPT !.symbol = Str(<<"g","k">>), !.start_date = Str(<<"2","0","2","4","-","0","2","-","0","1">>), !.end_date = Str(<<"2","0","2","4","-","0","1","-","0","1">>)]],
    [NoRawParams EXCEPT !.action = Str(<<"g","e","t","_","p","r","i","c","e","_","d","a","t","a">>), !.args = [NoArgs EXCEPT !.symbol = Str(<<"g","k">>), !.start_date = Str(<<"2","0","2","4","-","1","3","-","0","1">>), !.end_date = Str(<<"2","0","2","4","-","0","2","-","0","1">>)]] }

JAMAICA_MANAGED_SERVER_ID == "jamaica-market"

\* getRuntimeConfig: the default one, which reads the registry, or an injected
\* one that returns the managed server enabled or disabled.
JamaicaDependencies == {"default", "enabled", "disabled"}

getRuntimeConfig(dependency, store) ==
  LET managedServers == loadManagedMcpServers(store, Undefined)
      found == { i \in DOMAIN managedServers :
                   managedServers[i].managedId = JAMAICA_MANAGED_SERVER_ID }
      definition == listManagedMcpServerDefinitions(Undefined)[1]
  IN  IF dependency = "default"
      THEN IF found = {}
           THEN [ok |-> FALSE, error |-> "J_Unavailable", server |-> definition]
           ELSE IF ~ managedServers[Min(found)].enabled
           THEN [ok |-> FALSE, error |-> "J_Disabled", server |-> definition]
           ELSE [ok |-> TRUE, error |-> "none", server |-> managedServers[Min(found)]]
      ELSE [ok |-> TRUE, error |-> "none",
            server |-> [definition EXCEPT !.enabled = (dependency = "enabled")]]

\* action and toolName are the locals of execute the catch block reports.
IdleJamaica ==
  [pc |-> "idle", raw |-> NoRawParams, dependency |-> "default",
   params |-> NoJamaicaParams, action |-> "list_companies", toolName |-> "",
   calls |-> <<>>,
   result |-> [ok |-> TRUE, error |-> "none", text |-> <<>>,
               action |-> "list_companies", toolName |-> "",
               errorCode |-> "undefined"]]

\* The catch block: `Error: ${message}` and the details.
JamaicaFails(j, m) ==
  [j EXCEPT !.pc = "done",
            !.result = [ok |-> FALSE, error |-> m,
                        text |-> <<"E","r","r","o","r",":"," ">> \o JamaicaMessageText(m),
                        action |-> j.action, toolName |-> j.toolName,
                        errorCode |-> getRpcErrorCode(m)]]

\* An execute that builds the managed call before it looks at the flag.
executeAfterConfig_BuildFirst(j, runtimeConfig) ==
  LET call == buildManagedToolCall(j.params)
  IN  IF ~ runtimeConfig.ok THEN JamaicaFails(j, runtimeConfig.error)
      ELSE IF ~ call.ok THEN JamaicaFails(j, call.error)
      ELSE IF ~ runtimeConfig.server.enabled THEN JamaicaFails(j, "J_Disabled")
      ELSE [j EXCEPT !.pc = "rpc", !.action = call.action, !.toolName = call.toolName,
                     !.calls = Append(@, [server |-> runtimeConfig.server.id,
                                          method |-> "tools/call",
                                          name |-> call.toolName,
                                          arguments |-> call.arguments])]

\* execute from the moment getRuntimeConfig settles to its callJsonRpc or to
\* its catch block.
executeAfterConfig(j, runtimeConfig) ==
  LET call == buildManagedToolCall(j.params)
  IN  IF ~ runtimeConfig.ok THEN JamaicaFails(j, runtimeConfig.error)
      ELSE IF ~ runtimeConfig.server.enabled THEN JamaicaFails(j, "J_Disabled")
      ELSE IF ~ call.ok THEN JamaicaFails(j, call.error)
      ELSE [j EXCEPT !.pc = "rpc", !.action = call.action, !.toolName = call.toolName,
                     !.calls = Append(@, [server |-> runtimeConfig.server.id,
                                          method |-> "tools/call",
                                          name |-> call.toolName,
                                          arguments |-> call.arguments])]

\* The errors callJsonRpc throws: a JSON-RPC error of the server, the timeout.
JamaicaRpcErrors == {"E_Validation", "J_Timeout"}

\* "Jamaica market tool call"
TextJamaicaCall ==
  <<"J","a","m","a","i","c","a"," ","m","a","r","k","e","t"," ","t","o","o",
    "l"," ","c","a","l","l">>

JamaicaInit ==
  /\ settings \in { [EmptyStore EXCEPT ![MCP_MANAGED_SERVERS_SETTING_KEY] = f] :
                      f \in StoredFlags }
  /\ reg = IdleRegistry
  /\ jm = IdleJamaica

\* execute is called: parseParams, then the await of getRuntimeConfig.
JamaicaExecute(raw, dependency) ==
  /\ jm.pc = "idle"
  /\ LET params == parseJamaicaParams(raw)
         j == [IdleJamaica EXCEPT !.raw = raw, !.dependency = dependency]
     IN  jm' = IF ~ params.ok THEN JamaicaFails(j, params.error)
               ELSE [j EXCEPT !.pc = "config", !.params = params]
  /\ UNCHANGED <<registryVars, budgetVars, callVars, catalogVars, gwVars, edgeVars, proxyVars,
               managedVars>>

\* getRuntimeConfig settles.
JamaicaConfigSettles ==
  /\ jm.pc = "config"
  /\ jm' = executeAfterConfig(jm, getRuntimeConfig(jm.dependency, settings))
  /\ UNCHANGED <<registryVars, budgetVars, callVars, catalogVars, gwVars, edgeVars, proxyVars,
               managedVars>>

\* callJsonRpc settles: with a payload, or with an error.
JamaicaRpcSettles(outcome) ==
  /\ jm.pc = "rpc"
  /\ jm' = IF outcome = "ok"
           THEN [jm EXCEPT !.pc = "done",
                           !.result = [ok |-> TRUE, error |-> "none",
                                       text |-> TextJamaicaCall,
                                       action |-> jm.action, toolName |-> jm.toolName,
                                       errorCode |-> "undefined"]]
           ELSE JamaicaFails(jm, outcome)
  /\ UNCHANGED <<registryVars, budgetVars, callVars, catalogVars, gwVars, edgeVars, proxyVars,
               managedVars>>

\* execute returns its result.
JamaicaReturn ==
  /\ jm.pc = "done"
  /\ jm' = [jm EXCEPT !.pc = "idle"]
  /\ UNCHANGED <<registryVars, budgetVars, callVars, catalogVars, gwVars, edgeVars, proxyVars,
               managedVars>>

JamaicaNext ==
  \/ \E raw \in JamaicaRawParams, dependency \in JamaicaDependencies :
       JamaicaExecute(raw, dependency)
  \/ JamaicaConfigSettles
  \/ \E outcome \in {"ok"} \cup JamaicaRpcErrors : JamaicaRpcSettles(outcome)
  \/ JamaicaReturn


\* The managed server of the runtime configuration of the call is disabled.
ConfiguredDisabled ==
  \/ jm.dependency = "disabled"
  \/ /\ jm.dependency = "default"
     /\ ReportedDisabled(loadManagedMcpServers(settings, Undefined),
                         JAMAICA_MANAGED_SERVER_ID)

MentionsDisabled(text) ==
  Includes(ToLowerCase(text), <<"d","i","s","a","b","l","e","d">>)

\* C27: when the managed server is disabled in the runtime configuration,
\* execute sends no JSON-RPC call and, for each of the five actions with any
\* other fields, returns an error result whose text mentions "disabled".
C27_DisabledServerNotCalled ==
  (jm.pc # "idle" /\ ConfiguredDisabled)
    => /\ jm.calls = <<>>
       /\ jm.pc # "rpc"
       /\ (jm.pc = "done" /\ parseJamaicaParams(jm.raw).ok)
            => /\ ~ jm.result.ok
               /\ jm.result.error = "J_Disabled"
               /\ MentionsDisabled(jm.result.text)

\* A call whose dates are out of order was answered with the disabled error.
C27_Witness ==
  /\ jm.pc = "done"
  /\ ConfiguredDisabled
  /\ jm.params.action = "get_price_data"
  /\ ~ buildManagedToolCall(jm.params).ok
  /\ MentionsDisabled(jm.result.text)
  /\ jm.calls = <<>>

(***************************************************************************)
(* The no-action retry budget of the task pane (NoActionRetryBudget).  A   *)
(* message is a record with a role and a content, or no record at all; a   *)
(* content is a string, an array of parts or something else.               *)
(***************************************************************************)
\* "[Auto-retry:no-action]"
NO_ACTION_RETRY_MARKER ==
  <<"[","A","u","t","o","-","r","e","t","r","y",":","n","o","-","a","c","t",
    "i","o","n","]">>

\* "[Auto-retry:no-action] Execute with tool calls now; do not stop at analysis."
NO_ACTION_RETRY_MESSAGE ==
  <<"[","A","u","t","o","-","r","e","t","r","y",":","n","o","-","a","c","t",
    "i","o","n","]"," ","E","x","e","c","u","t","e"," ","w","i","t","h"," ",
    "t","o","o","l"," ","c","a","l","l","s"," ","n","o","w",";"," ","d","o",
    " ","n","o","t"," ","s","t","o","p"," ","a","t"," ","a","n","a","l","y",
    "s","i","s",".">>

\* "[Auto-context]"
AutoContextPrefix ==
  <<"[","A","u","t","o","-","c","o","n","t","e","x","t","]">>

RECURSIVE JoinTextParts(_)
JoinTextParts(items) ==
  IF items = <<>> THEN <<>>
  ELSE IF Head(items).type # "text" \/ Head(items).text.type # "string"
  THEN JoinTextParts(Tail(items))
  ELSE LET rest == JoinTextParts(Tail(items))
           more == \E i \in DOMAIN Tail(items) :
                     Tail(items)[i].type = "text" /\ Tail(items)[i].text.type = "string"
       IN  Head(items).text.text \o (IF more THEN <<" ">> \o rest ELSE rest)

extractTextContent(content) ==
  CASE content.kind = "string" -> content.text
    [] content.kind = "array"  -> JoinTextParts(content.items)
    [] OTHER                   -> <<>>

\* role "" is a role that is not a string.
isUserMessage(message) ==
  message.isRecord /\ message.role \in {"user", "user-with-attachments"}

isNoActionRetryMarkerText(text) == StartsWith(Trim(text), NO_ACTION_RETRY_MARKER)

isNoActionRetryUserMessage(message) ==
  isUserMessage(message) /\ isNoActionRetryMarkerText(extractTextContent(message.content))

isAutoContextUserMessage(message) ==
  isUserMessage(message)
    /\ StartsWith(Trim(extractTextContent(message.content)), AutoContextPrefix)

\* A budget that a retry message replenishes too.
beginUserTurn_CountRetryMessage(retriesRemaining, message) ==
  IF ~ isUserMessage(message) THEN retriesRemaining
  ELSE IF isAutoContextUserMessage(message) THEN retriesRemaining
  ELSE 1

\* retriesRemaining after beginUserTurn(message)
beginUserTurn(retriesRemaining, message) ==
  IF ~ isUserMessage(message) THEN retriesRemaining
  ELSE IF isAutoContextUserMessage(message) THEN retriesRemaining
  ELSE IF isNoActionRetryUserMessage(message) THEN retriesRemaining
  ELSE 1

\* What consumeRetry returns, and retriesRemaining after it.
consumeRetry(retriesRemaining) ==
  IF retriesRemaining <= 0
  THEN [returned |-> FALSE, retriesRemaining |-> retriesRemaining]
  ELSE [returned |-> TRUE, retriesRemaining |-> 0]

StringContent(text) == [kind |-> "string", text |-> text, items |-> <<>>]

ArrayContent(items) == [kind |-> "array", text |-> <<>>, items |-> items]

TextPart(text) == [type |-> "text", text |-> Str(text)]

Message(role, content) == [isRecord |-> TRUE, role |-> role, content |-> content]

NoMessage ==
  [isRecord |-> FALSE, role |-> "", content |-> [kind |-> "other", text |-> <<>>, items |-> <<>>]]

Messages ==
  { NoMessage,
    Message("user", StringContent(<<"B","u","i","l","d">>)),
    Message("user-with-attachments",
            ArrayContent(<<[type |-> "image", text |-> Undefined],
                           TextPart(<<"R","u","n">>)>>)),
    Message("user", StringContent(<<>>)),
    Message("user", NoMessage.content),
    Message("user", StringContent(NO_ACTION_RETRY_MESSAGE)),
    Message("user", ArrayContent(<<TextPart(<<" ">>), TextPart(NO_ACTION_RETRY_MARKER)>>)),
    Message("user", StringContent(AutoContextPrefix \o <<" ","A","1">>)),
    Message("user-with-attachments",
            ArrayContent(<<TextPart(<<" ">> \o AutoContextPrefix)>>)),
    Message("assistant", StringContent(<<"B","u","i","l","d">>)),
    Message("toolResult", StringContent(<<"o","k">>)),
    Message("", StringContent(<<"B","u","i","l","d">>)) }

\* The history kept per budget stops counting at these numbers.
MaxTurns == 3

MaxConsumes == 3

\* turns, consumes and granted are history: the user turns begun with a
\* message that is neither a retry message nor auto-context, and the calls of
\* consumeRetry and the retries granted since the last of them.
NewBudget ==
  [retriesRemaining |-> 0, turns |-> 0, consumes |-> 0, granted |-> 0,
   last |-> [op |-> "new", message |-> NoMessage, returned |-> FALSE]]

GenuineUserMessage(message) ==
  /\ message.isRecord
  /\ message.role \in {"user", "user-with-attachments"}
  /\ ~ StartsWith(Trim(extractTextContent(message.content)), NO_ACTION_RETRY_MARKER)
  /\ ~ StartsWith(Trim(extractTextContent(message.content)), AutoContextPrefix)

BudgetInit ==
  budget = NewBudget

BeginUserTurn(message) ==
  /\ GenuineUserMessage(message) => budget.turns < MaxTurns
  /\ budget' =
       [budget EXCEPT
          !.retriesRemaining = beginUserTurn(budget.retriesRemaining, message),
          !.turns = IF GenuineUserMessage(message) THEN @ + 1 ELSE @,
          !.consumes = IF GenuineUserMessage(message) THEN 0 ELSE @,
          !.granted = IF GenuineUserMessage(message) THEN 0 ELSE @,
          !.last = [op |-> "beginUserTurn", message |-> message, returned |-> FALSE]]
  /\ UNCHANGED <<registryVars, jamaicaVars, callVars, catalogVars, gwVars, edgeVars, proxyVars,
               managedVars>>

ConsumeRetry ==
  /\ budget.consumes < MaxConsumes
  /\ LET r == consumeRetry(budget.retriesRemaining)
     IN  budget' =
           [budget EXCEPT
              !.retriesRemaining = r.retriesRemaining,
              !.consumes = @ + 1,
              !.granted = IF r.returned THEN @ + 1 ELSE @,
              !.last = [op |-> "consumeRetry", message |-> NoMessage,
                        returned |-> r.returned]]
  /\ UNCHANGED <<registryVars, jamaicaVars, callVars, catalogVars, gwVars, edgeVars, proxyVars,
               managedVars>>

BudgetNext ==
  \/ \E message \in Messages : BeginUserTurn(message)
  \/ ConsumeRetry

\* C28: the budget grants one retry per user turn begun with a message that
\* is neither a retry message nor auto-context: since the last such turn
\* consumeRetry has returned true on its first call and false on every later
\* one, and never true before the first such turn; beginUserTurn with any
\* other message leaves the budget as it is; remaining is 0 or 1.
C28_OneRetryPerUserTurn ==
  /\ [](/\ budget.retriesRemaining \in {0, 1}
        /\ budget.granted <= 1
        /\ budget.turns = 0 => budget.granted = 0
        /\ budget.last.op = "consumeRetry"
             => (budget.last.returned <=> (budget.turns > 0 /\ budget.consumes = 1))
        /\ (budget.turns > 0 /\ budget.consumes = 0) => budget.retriesRemaining = 1)
  /\ [][ (budget'.last.op = "beginUserTurn" /\ ~ GenuineUserMessage(budget'.last.message))
           => budget'.retriesRemaining = budget.retriesRemaining ]_vars

\* In the second user turn the retry was used and a retry message did not
\* bring it back.
C28_Witness ==
  /\ budget.turns = 2
  /\ budget.granted = 1
  /\ budget.consumes = 1
  /\ budget.retriesRemaining = 0
  /\ budget.last.op = "beginUserTurn"
  /\ budget.last.message = Message("user", StringContent(NO_ACTION_RETRY_MESSAGE))

(***************************************************************************)
(* The HTTP transport of the gateway client (defaultCallJsonRpc): one call *)
(* at a time, cut at its fetch.  A response is a status and a body; a body *)
(* is its text together with what JSON.parse and the field reads of        *)
(* parseJsonRpcError find in it.                                           *)
(***************************************************************************)
\* The bodies:
\*   {"error":{"code":-32602,"message":"Tool not found: t1"}}
\*   {"error":{"message":" stale "}}
\*   {"error":{"code":"-32000","message":"x"}}
\*   {"error":{"code":-32000,"message":""},"message":"Bad gateway"}
\*   {"error":"Method not allowed"}
\*   {"result":{}}
\*   (an empty body)
\*   upstream failed
ResponseBodies ==
  { [text |-> <<"{","\"","e","r","r","o","r","\"",":","{","\"","c","o","d","e","\"",":","-",
               "3","2","6","0","2",",","\"","m","e","s","s","a","g","e","\"",":","\"","T",
               "o","o","l"," ","n","o","t"," ","f","o","u","n","d",":"," ","t","1","\"",
               "}","}">>,
     parses |-> TRUE, isRecord |-> TRUE, errorIsRecord |-> TRUE,
     errorMessage |-> Str(<<"T","o","o","l"," ","n","o","t"," ","f","o","u","n","d",":"," ","t","1">>),
     errorCode |-> Num(<<"-","3","2","6","0","2">>),
     message |-> Undefined],
    [text |-> <<"{","\"","e","r","r","o","r","\"",":","{","\"","m","e","s","s","a","g","e",
               "\"",":","\""," ","s","t","a","l","e"," ","\"","}","}">>,
     parses |-> TRUE, isRecord |-> TRUE, errorIsRecord |-> TRUE,
     errorMessage |-> Str(<<" ","s","t","a","l","e"," ">>),
     errorCode |-> Undefined,
     message |-> Undefined],
    [text |-> <<"{","\"","e","r","r","o","r","\"",":","{","\"","c","o","d","e","\"",":",
               "\"","-","3","2","0","0","0","\"",",","\"","m","e","s","s","a","g","e","\"",
               ":","\"","x","\"","}","}">>,
     parses |-> TRUE, isRecord |-> TRUE, errorIsRecord |-> TRUE,
     errorMessage |-> Str(<<"x">>),
     errorCode |-> Str(<<"-","3","2","0","0","0">>),
     message |-> Undefined],
    [text |-> <<"{","\"","e","r","r","o","r","\"",":","{","\"","c","o","d","e","\"",":","-",
               "3","2","0","0","0",",","\"","m","e","s","s","a","g","e","\"",":","\"","\"",
               "}",",","\"","m","e","s","s","a","g","e","\"",":","\"","B","a","d"," ","g",
               "a","t","e","w","a","y","\"","}">>,
     parses |-> TRUE, isRecord |-> TRUE, errorIsRecord |-> TRUE,
     errorMessage |-> Str(<<>>),
     errorCode |-> Num(<<"-","3","2","0","0","0">>),
     message |-> Str(<<"B","a","d"," ","g","a","t","e","w","a","y">>)],
    [text |-> <<"{","\"","e","r","r","o","r","\"",":","\"","M","e","t","h","o","d"," ","n",
               "o","t"," ","a","l","l","o","w","e","d","\"","}">>,
     parses |-> TRUE, isRecord |-> TRUE, errorIsRecord |-> FALSE,
     errorMessage |-> Undefined,
     errorCode |-> Undefined,
     message |-> Undefined],
    [text |-> <<"{","\"","r","e","s","u","l","t","\"",":","{","}","}">>,
     parses |-> TRUE, isRecord |-> TRUE, errorIsRecord |-> FALSE,
     errorMessage |-> Undefined,
     errorCode |-> Undefined,
     message |-> Undefined],
    [text |-> <<>>,
     parses |-> TRUE, isRecord |-> FALSE, errorIsRecord |-> FALSE,
     errorMessage |-> Undefined,
     errorCode |-> Undefined,
     message |-> Undefined],
    [text |-> <<"u","p","s","t","r","e","a","m"," ","f","a","i","l","e","d">>,
     parses |-> FALSE, isRecord |-> FALSE, errorIsRecord |-> FALSE,
     errorMessage |-> Undefined,
     errorCode |-> Undefined,
     message |-> Undefined] }

ResponseStatuses == {200, 204, 400, 404, 500}

\* The calls of a handshake and a tools/call; the notification expects no
\* response.
JsonRpcCalls ==
  { [method |-> "initialize", expectResponse |-> TRUE],
    [method |-> "notifications/initialized", expectResponse |-> FALSE],
    [method |-> "tools/call", expectResponse |-> TRUE] }

RECURSIVE DigitsOf(_)
DigitsOf(n) ==
  IF n < 10 THEN <<Digits[n + 1]>>
  ELSE DigitsOf(n \div 10) \o <<Digits[(n % 10) + 1]>>

\* getHttpErrorReason (utils/network.ts): the trimmed body when it is not
\* empty, `HTTP <status>` otherwise.
getHttpErrorReason(status, body) ==
  IF Trim(body) # <<>> THEN Trim(body) ELSE <<"H","T","T","P"," ">> \o DigitsOf(status)

NoRpcError == [found |-> FALSE, message |-> <<>>, code |-> Undefined]

\* parseJsonRpcError of mcp.ts: the message and the code, or null (found FALSE).
parseJsonRpcError(value) ==
  LET errorMessage == IF value.errorMessage.type = "string"
                      THEN Trim(value.errorMessage.text) ELSE <<>>
      text == IF value.message.type = "string" THEN Trim(value.message.text) ELSE <<>>
  IN  IF ~ value.isRecord THEN NoRpcError
      ELSE IF value.errorIsRecord /\ errorMessage # <<>>
      THEN [found |-> TRUE, message |-> errorMessage,
            code |-> IF value.errorCode.type = "number" THEN value.errorCode ELSE Undefined]
      ELSE IF text # <<>> THEN [found |-> TRUE, message |-> text, code |-> Undefined]
      ELSE NoRpcError

\* What a call settles with: a result (null for a notification), or a thrown
\* error with its class, message and code.
Returned(result) ==
  [thrown |-> FALSE, result |-> result, name |-> "", message |-> <<>>, code |-> Undefined]

Thrown(name, message, code) ==
  [thrown |-> TRUE, result |-> "none", name |-> name, message |-> message, code |-> code]

\* "MCP request failed ("
TextRequestFailed ==
  <<"M","C","P"," ","r","e","q","u","e","s","t"," ","f","a","i","l","e","d",
    " ","(">>

\* "Invalid MCP JSON-RPC response."
TextInvalidResponse ==
  <<"I","n","v","a","l","i","d"," ","M","C","P"," ","J","S","O","N","-","R",
    "P","C"," ","r","e","s","p","o","n","s","e",".">>

\* The message of the SyntaxError JSON.parse throws is the engine's; it is
\* left empty.
ParseFailure == Thrown("SyntaxError", <<>>, Undefined)

\* A transport that reads the JSON-RPC error of a failed response too.
defaultCallJsonRpc_ParseFailed(call, response) ==
  LET rpcError == parseJsonRpcError(response.body)
  IN  IF ~ (response.status \in 200..299) /\ ~ (response.body.parses /\ rpcError.found)
      THEN Thrown("Error",
                  TextRequestFailed \o DigitsOf(response.status) \o <<")",":"," ">>
                    \o getHttpErrorReason(response.status, response.body.text),
                  Undefined)
      ELSE IF ~ call.expectResponse /\ response.status \in 200..299 THEN Returned("null")
      ELSE IF ~ response.body.parses THEN ParseFailure
      ELSE IF rpcError.found THEN Thrown("McpRpcError", rpcError.message, rpcError.code)
      ELSE IF ~ response.body.isRecord THEN Thrown("Error", TextInvalidResponse, Undefined)
      ELSE Returned("payload")

\* defaultCallJsonRpc once fetch has resolved with a response.
defaultCallJsonRpc(call, response) ==
  LET rpcError == parseJsonRpcError(response.body)
  IN  IF ~ (response.status \in 200..299)
      THEN Thrown("Error",
                  TextRequestFailed \o DigitsOf(response.status) \o <<")",":"," ">>
                    \o getHttpErrorReason(response.status, response.body.text),
                  Undefined)
      ELSE IF ~ call.expectResponse THEN Returned("null")
      ELSE IF ~ response.body.parses THEN ParseFailure
      ELSE IF rpcError.found THEN Thrown("McpRpcError", rpcError.message, rpcError.code)
      ELSE IF ~ response.body.isRecord THEN Thrown("Error", TextInvalidResponse, Undefined)
      ELSE Returned("payload")

\* getRpcErrorCode on a thrown error: the code of a McpRpcError, undefined for
\* any other error.  It is what execute records as details.errorCode.
RpcErrorCodeOf(outcome) ==
  IF outcome.thrown /\ outcome.name = "McpRpcError" THEN outcome.code ELSE Undefined

IdleCall ==
  [pc |-> "idle",
   call |-> [method |-> "", expectResponse |-> TRUE],
   response |-> [status |-> 0, body |-> CHOOSE b \in ResponseBodies : b.text = <<>>],
   outcome |-> Returned("none"),
   errorCode |-> Undefined]

CallInit == transport = IdleCall

\* defaultCallJsonRpc is called and awaits fetch.
CallJsonRpc(c) ==
  /\ transport.pc = "idle"
  /\ transport' = [IdleCall EXCEPT !.pc = "fetch", !.call = c]
  /\ UNCHANGED <<registryVars, jamaicaVars, budgetVars, catalogVars, gwVars, edgeVars,
               proxyVars, managedVars>>

\* fetch resolves; the call settles and execute records the error code.
FetchResolves(status, body) ==
  /\ transport.pc = "fetch"
  /\ LET response == [status |-> status, body |-> body]
         outcome == defaultCallJsonRpc(transport.call, response)
     IN  transport' = [transport EXCEPT !.pc = "settled", !.response = response,
                              !.outcome = outcome,
                              !.errorCode = RpcErrorCodeOf(outcome)]
  /\ UNCHANGED <<registryVars, jamaicaVars, budgetVars, catalogVars, gwVars, edgeVars,
               proxyVars, managedVars>>

\* fetch rejects: runWithTimeoutAbort turns its own abort into the timeout
\* error and the caller's abort into Error("Aborted"); any other rejection is
\* thrown as it is (a TypeError whose message is the engine's).
FetchRejects(cause) ==
  /\ transport.pc = "fetch"
  /\ LET outcome == CASE cause = "timeout" -> Thrown("Error", TextTimeout, Undefined)
                      [] cause = "abort" -> Thrown("Error", TextAborted, Undefined)
                      [] OTHER -> Thrown("TypeError", <<>>, Undefined)
     IN  transport' = [transport EXCEPT !.pc = "settled", !.outcome = outcome,
                                        !.errorCode = RpcErrorCodeOf(outcome)]
  /\ UNCHANGED <<registryVars, jamaicaVars, budgetVars, catalogVars, gwVars, edgeVars,
               proxyVars, managedVars>>

CallSettled ==
  /\ transport.pc = "settled"
  /\ transport' = IdleCall
  /\ UNCHANGED <<registryVars, jamaicaVars, budgetVars, catalogVars, gwVars, edgeVars,
               proxyVars, managedVars>>

CallNext ==
  \/ \E c \in JsonRpcCalls : CallJsonRpc(c)
  \/ \E status \in ResponseStatuses, body \in ResponseBodies : FetchResolves(status, body)
  \/ \E cause \in {"timeout", "abort", "network"} : FetchRejects(cause)
  \/ CallSettled

\* The body is a JSON-RPC error object: an error record with a message and a
\* numeric code.
IsJsonRpcErrorBody(body) ==
  /\ body.parses /\ body.isRecord /\ body.errorIsRecord
  /\ body.errorMessage.type = "string" /\ Trim(body.errorMessage.text) # <<>>
  /\ body.errorCode.type = "number"

\* C30: a JSON-RPC error {code, message} in the response to a call that
\* expects one is thrown as a McpRpcError with that message and code, and the
\* code is the error code of the result details, whatever the HTTP status.
C30_RpcErrorSameForAnyStatus ==
  (transport.pc = "settled" /\ transport.call.expectResponse /\ IsJsonRpcErrorBody(transport.response.body))
    => /\ transport.outcome.thrown
       /\ transport.outcome.name = "McpRpcError"
       /\ transport.outcome.message = Trim(transport.response.body.errorMessage.text)
       /\ transport.errorCode = transport.response.body.errorCode

\* The same for the responses with a 2xx status; with any other status the
\* error is a plain Error without a code.
RpcErrorOfOkResponse ==
  (transport.pc = "settled" /\ transport.call.expectResponse /\ IsJsonRpcErrorBody(transport.response.body))
    => IF transport.response.status \in 200..299
       THEN /\ transport.outcome.name = "McpRpcError"
            /\ transport.outcome.message = Trim(transport.response.body.errorMessage.text)
            /\ transport.errorCode = transport.response.body.errorCode
       ELSE /\ transport.outcome.name = "Error"
            /\ StartsWith(transport.outcome.message, TextRequestFailed)
            /\ transport.errorCode = Undefined

(***************************************************************************)
(* The managed tool call on both sides of the wire: what jamaica_market    *)
(* sends, and what the managed endpoint makes of it.                       *)
(***************************************************************************)

\* The server normalizer leaves the text as it was sent.
KeptAsSent(sent, normalized) == normalized.ok /\ Str(normalized.value) = sent

\* The server parses the number that was sent to the same integer.
SameInteger(sent, normalized) == normalized.ok /\ Num(DigitsOf(normalized.value)) = sent

\* runManagedMcpTool accepts the call and each of its normalizers returns the
\* value of the field as the client sent it.
ServerAgrees(c) ==
  LET a == c.arguments
      sent == { f \in DOMAIN a : a[f] # Undefined }
  IN  /\ runManagedMcpTool(c.name, a).ok
      /\ sent \subseteq buildManagedMcpToolsSchema(c.name)
      /\ "symbol" \in sent => KeptAsSent(a.symbol, normalizeSymbol(a.symbol))
      /\ "frequency" \in sent => KeptAsSent(a.frequency, normalizeFrequency(a.frequency))
      /\ "statement_type" \in sent
           => KeptAsSent(a.statement_type, normalizeStatementType(a.statement_type))
      /\ "start_date" \in sent => KeptAsSent(a.start_date, normalizeIsoDate(a.start_date))
      /\ "end_date" \in sent => KeptAsSent(a.end_date, normalizeIsoDate(a.end_date))
      /\ "limit" \in sent => SameInteger(a.limit, normalizeBoundedInt(a.limit, 1, 500))
      /\ "year" \in sent
           => SameInteger(a.year, normalizeBoundedInt(a.year, 1990, UtcFullYear + 1))
      /\ "years" \in sent => SameInteger(a.years, normalizeBoundedInt(a.years, 1, 10))

\* C40: every call jamaica_market sends (jm_<action> with the arguments
\* buildManagedToolCall built) passes the validation of runManagedMcpTool for
\* that tool, and the server's normalizers return the values that were sent:
\* a call accepted on the client is never refused by the server's validation.
C40_ValidatorsAgree ==
  \A i \in DOMAIN jm.calls :
    /\ jm.calls[i].method = "tools/call"
    /\ \E k \in DOMAIN ACTION_VALUES :
         jm.calls[i].name = "jm_" \o ACTION_VALUES[k] /\ jm.action = ACTION_VALUES[k]
    /\ ServerAgrees(jm.calls[i])

\* A get_statement call is in flight that was built from the lower-case
\* inputs gk, annual, is and the year 2024.
C40_Witness ==
  /\ jm.pc = "rpc"
  /\ jm.calls # <<>>
  /\ jm.calls[1].name = "jm_get_statement"
  /\ jm.raw.args.symbol = Str(<<"g","k">>)
  /\ jm.calls[1].arguments.symbol = Str(<<"G","K">>)
  /\ jm.calls[1].arguments.year = Num(<<"2","0","2","4">>)

(***************************************************************************)
(* Concurrent catalog fetches.  Two execute calls of one tool instance run *)
(* ensureServerTools for the same server id over the shared toolCache;     *)
(* each is cut at its three awaits and the scheduler interleaves them.     *)
(* Each caller holds the server configuration of its own runtime config    *)
(* (the display name may have changed between the two).                    *)
(***************************************************************************)
Callers == {1, 2}

CallerServers == { [id |-> IdA, name |-> n, enabled |-> TRUE] : n \in {NameA, NameAliasB} }

NoCatalogEntry == [cached |-> FALSE, server |-> [id |-> IdA, name |-> <<>>, enabled |-> TRUE],
                   tools |-> <<>>]

IdleCaller ==
  [pc |-> "idle", server |-> [id |-> IdA, name |-> <<>>, enabled |-> TRUE],
   refresh |-> FALSE, log |-> <<>>, entry |-> NoCatalogEntry, error |-> "none"]

\* A write that appends the listed tools to those of the entry already there.
toolCacheSet_Merge(cache, entry) ==
  IF cache.cached THEN [entry EXCEPT !.tools = cache.tools \o entry.tools] ELSE entry

\* toolCache.set(server.id, entry): the entry replaces whatever the key held.
toolCacheSet(cache, entry) == entry

CatalogInit ==
  catalog = [cache |-> NoCatalogEntry,
             caller |-> [p \in Callers |-> IdleCaller],
             processed |-> <<>>]

\* ensureServerTools up to its first await: a cached entry is returned at
\* once unless refresh is set, otherwise initialize is sent.
EnsureStarts(p, server, refresh) ==
  /\ catalog.caller[p].pc = "idle"
  /\ LET c == [IdleCaller EXCEPT !.server = server, !.refresh = refresh]
     IN  catalog' =
           [catalog EXCEPT !.caller[p] =
              IF ~refresh /\ catalog.cache.cached
              THEN [c EXCEPT !.pc = "returned", !.entry = catalog.cache]
              ELSE [c EXCEPT !.pc = "initialize", !.log = <<"initialize">>]]
  /\ UNCHANGED <<registryVars, jamaicaVars, budgetVars, callVars, gwVars, edgeVars,
               proxyVars, managedVars>>

\* initialize resolves: notifications/initialized is sent.
EnsureInitialized(p) ==
  /\ catalog.caller[p].pc = "initialize"
  /\ catalog' = [catalog EXCEPT !.caller[p].pc = "notifications/initialized",
                                !.caller[p].log = Append(@, "notifications/initialized")]
  /\ UNCHANGED <<registryVars, jamaicaVars, budgetVars, callVars, gwVars, edgeVars,
               proxyVars, managedVars>>

\* The notification resolves: tools/list is sent.
EnsureNotified(p) ==
  /\ catalog.caller[p].pc = "notifications/initialized"
  /\ catalog' = [catalog EXCEPT !.caller[p].pc = "tools/list",
                                !.caller[p].log = Append(@, "tools/list")]
  /\ UNCHANGED <<registryVars, jamaicaVars, budgetVars, callVars, gwVars, edgeVars,
               proxyVars, managedVars>>

\* tools/list resolves with a response: the entry is built and written.
EnsureListed(p, names) ==
  /\ catalog.caller[p].pc = "tools/list"
  /\ LET c == catalog.caller[p]
         entry == [cached |-> TRUE, server |-> c.server,
                   tools |-> parseToolListResult(c.server, names)]
     IN  catalog' = [catalog EXCEPT !.cache = toolCacheSet(catalog.cache, entry),
                                    !.caller[p].pc = "returned",
                                    !.caller[p].entry = entry,
                                    !.processed = Append(@, [caller |-> p, names |-> names])]
  /\ UNCHANGED <<registryVars, jamaicaVars, budgetVars, callVars, gwVars, edgeVars,
               proxyVars, managedVars>>

\* The call a caller awaits throws, or tools/list resolves to null: the
\* caller leaves ensureServerTools by the throw.
EnsureThrows(p, err) ==
  /\ catalog.caller[p].pc \in {"initialize", "notifications/initialized", "tools/list"}
  /\ err = "M_ListNoResponse" => catalog.caller[p].pc = "tools/list"
  /\ catalog' = [catalog EXCEPT !.caller[p].pc = "thrown", !.caller[p].error = err]
  /\ UNCHANGED <<registryVars, jamaicaVars, budgetVars, callVars, gwVars, edgeVars,
               proxyVars, managedVars>>

CatalogNext ==
  \/ \E p \in Callers, server \in CallerServers, refresh \in BOOLEAN :
       EnsureStarts(p, server, refresh)
  \/ \E p \in Callers : EnsureInitialized(p)
  \/ \E p \in Callers : EnsureNotified(p)
  \/ \E p \in Callers, names \in ToolLists : EnsureListed(p, names)
  \/ \E p \in Callers, err \in {"E_Timeout", "M_ListNoResponse"} : EnsureThrows(p, err)

FullHandshake == <<"initialize", "notifications/initialized", "tools/list">>

\* Both callers missed the cache (or were told to refresh), ran concurrently
\* and have returned.
BothFetched ==
  /\ \A p \in Callers : catalog.caller[p].pc = "returned" /\ catalog.caller[p].log # <<>>
  /\ Len(catalog.processed) = 2

\* C32: when two concurrent fetches of one server have both returned, each has
\* sent its own initialize, notifications/initialized and tools/list, and the
\* cache entry of the server is the one built from the tools/list response
\* processed last: its server and its tools both come from that caller.
C32_LastWriteWins ==
  BothFetched =>
    LET lastOne == catalog.processed[2]
        c == catalog.caller[lastOne.caller]
    IN  /\ \A p \in Callers : catalog.caller[p].log = FullHandshake
        /\ catalog.cache.cached
        /\ catalog.cache.server = c.server
        /\ catalog.cache.tools = parseToolListResult(c.server, lastOne.names)
        /\ catalog.cache = c.entry

\* C32 witness: both callers fetched, the second response processed came from
\* the caller whose response differs from the first one's.
C32_Witness ==
  /\ BothFetched
  /\ catalog.processed[1].caller = 2 /\ catalog.processed[2].caller = 1
  /\ catalog.processed[1].names = <<"t1", "t2">> /\ catalog.processed[2].names = <<"t1">>
  /\ catalog.caller[1].server.name # catalog.caller[2].server.name
  /\ ~catalog.caller[1].refresh /\ ~catalog.caller[2].refresh

(***************************************************************************)
(* Specifications: each one runs one component and leaves the others in    *)
(* their initial state.                                                    *)
(***************************************************************************)
GatewayParked ==
  /\ servers = <<>>
  /\ toolCache = [id \in ServerIds |-> NoEntry]
  /\ op = IdleOp

EdgeParked ==
  /\ CONFIGURED_ALLOWED_ORIGINS = {}
  /\ RATE_LIMIT_MAX_REQUESTS = 1
  /\ RATE_LIMIT_STATE = <<>>
  /\ now = 0
  /\ limiterCalls = <<>>
  /\ last = NoRequest

ProxyParked == px = IdleProxy

ManagedParked == rpc = IdleRpc

RegistryParked ==
  /\ settings = EmptyStore
  /\ reg = IdleRegistry

JamaicaParked == jm = IdleJamaica

BudgetParked == budget = NewBudget

CallParked == transport = IdleCall

CatalogParked == CatalogInit

ClientParked ==
  RegistryParked /\ JamaicaParked /\ BudgetParked /\ CallParked /\ CatalogParked

GatewaySpecInit == GatewayInit /\ EdgeParked /\ ProxyParked /\ ManagedParked /\ ClientParked

EdgeSpecInit == EdgeInit /\ GatewayParked /\ ProxyParked /\ ManagedParked /\ ClientParked

SpecGateway == GatewaySpecInit /\ [][GatewayNext]_vars

\* The gateway over every configuration, one with a shared id included.
EffectiveSpecInit ==
  /\ servers \in ServerConfigs \cup {SharedIdConfig}
  /\ toolCache = [id \in ServerIds |-> NoEntry]
  /\ op = IdleOp
  /\ EdgeParked /\ ProxyParked /\ ManagedParked /\ ClientParked

SpecEffective == EffectiveSpecInit /\ [][GatewayNext]_vars

SpecSearch == GatewaySpecInit /\ [][SearchNext]_vars

SpecEdge == EdgeSpecInit /\ [][EdgeNext]_vars

SpecOrigin == EdgeSpecInit /\ [][OriginNext]_vars

ProxySpecInit == ProxyInit /\ GatewayParked /\ EdgeParked /\ ManagedParked /\ ClientParked

SpecProxy == ProxySpecInit /\ [][ProxyNext]_vars

ManagedSpecInit == ManagedInit /\ GatewayParked /\ EdgeParked /\ ProxyParked /\ ClientParked

SpecManaged == ManagedSpecInit /\ [][ManagedNext]_vars

ServerSpecInit == EdgeInit /\ GatewayParked /\ ProxyInit /\ ManagedInit /\ ClientParked

SpecServer == ServerSpecInit /\ [][ServerNext]_vars

ServerSideParked == GatewayParked /\ EdgeParked /\ ProxyParked /\ ManagedParked

RegistrySpecInit ==
  RegistryInit /\ JamaicaParked /\ BudgetParked /\ CallParked /\ CatalogParked /\ ServerSideParked

SpecRegistry == RegistrySpecInit /\ [][RegistryNext]_vars

JamaicaSpecInit ==
  JamaicaInit /\ BudgetParked /\ CallParked /\ CatalogParked /\ ServerSideParked

SpecJamaica == JamaicaSpecInit /\ [][JamaicaNext]_vars

BudgetSpecInit ==
  BudgetInit /\ RegistryParked /\ JamaicaParked /\ CallParked /\ CatalogParked /\ ServerSideParked

SpecBudget == BudgetSpecInit /\ [][BudgetNext]_vars

CallSpecInit ==
  /\ CallInit
  /\ RegistryParked /\ JamaicaParked /\ BudgetParked /\ CatalogParked
  /\ ServerSideParked

SpecCall == CallSpecInit /\ [][CallNext]_vars

CatalogSpecInit ==
  /\ CatalogInit
  /\ RegistryParked /\ JamaicaParked /\ BudgetParked /\ CallParked
  /\ ServerSideParked

SpecCatalog == CatalogSpecInit /\ [][CatalogNext]_vars

====
